---- MODULE Spec2Model ----
(***************************************************************************)
(* Model of pdf-data-extractor: the checkpointed batch runners             *)
(* (src/main.py, src/main_facesheet_extraction.py) with save_checkpoint /  *)
(* load_checkpoint, the response parsing of ollama_process_image,          *)
(* validate_extracted_data and the CSV row, the directory listing,         *)
(* convert_pdf_to_images with the in-place header crop, detect_pdf_type    *)
(* and the hybrid extraction (src/main_json_extractor_troubleshoot.py),    *)
(* the output naming of src/main_json_extractor.py and the progress        *)
(* counters of the facesheet loop.                                         *)
(*                                                                         *)
(* Text (filenames, model responses) is a sequence of one-character        *)
(* strings, so that find / rfind / slicing / strip / lower / endswith /    *)
(* replace / sorted are computed the way Python computes them.             *)
(***************************************************************************)
EXTENDS Integers, Sequences, FiniteSets, TLC

\* ------------------------------------------------------------------------
\* Bounds of the model
\* ------------------------------------------------------------------------
\* number of entries of the source directory that exist (prefix of DirEntries)
NumEntries == 4
\* number of times the batch script is started (first run + restarts)
MaxRuns == 2
\* number of pieces a model response is assembled from
MaxPieces == 3

\* ------------------------------------------------------------------------
\* Python text primitives
\* ------------------------------------------------------------------------
Range(s) == {s[i] : i \in 1..Len(s)}

Min(a, b) == IF a < b THEN a ELSE b

Max(a, b) == IF a > b THEN a ELSE b

\* code points of the characters that occur in the modelled filenames
Ord(c) ==
    CASE c = "." -> 46
      [] c = "A" -> 65
      [] c = "D" -> 68
      [] c = "F" -> 70
      [] c = "P" -> 80
      [] c = "a" -> 97
      [] c = "b" -> 98
      [] c = "c" -> 99
      [] c = "d" -> 100
      [] c = "e" -> 101
      [] c = "f" -> 102
      [] c = "n" -> 110
      [] c = "o" -> 111
      [] c = "p" -> 112
      [] c = "t" -> 116
      [] c = "x" -> 120
      [] OTHER -> 0

UpperCase ==
    <<"A", "B", "C", "D", "E", "F", "G", "H", "I", "J", "K", "L", "M",
      "N", "O", "P", "Q", "R", "S", "T", "U", "V", "W", "X", "Y", "Z">>

LowerCase ==
    <<"a", "b", "c", "d", "e", "f", "g", "h", "i", "j", "k", "l", "m",
      "n", "o", "p", "q", "r", "s", "t", "u", "v", "w", "x", "y", "z">>

\* str.lower() on one character
LowerChar(c) ==
    IF c \in Range(UpperCase)
    THEN LowerCase[CHOOSE i \in 1..Len(UpperCase) : UpperCase[i] = c]
    ELSE c

\* str.lower()
lower(s) == [i \in 1..Len(s) |-> LowerChar(s[i])]

\* str.startswith(prefix)
startswith(s, prefix) ==
    /\ Len(prefix) <= Len(s)
    /\ SubSeq(s, 1, Len(prefix)) = prefix

\* str.endswith(suffix)
endswith(s, suffix) ==
    /\ Len(suffix) <= Len(s)
    /\ SubSeq(s, Len(s) - Len(suffix) + 1, Len(s)) = suffix

\* does sub occur in s at 0-based offset i
MatchAt(s, sub, i) ==
    /\ i >= 0
    /\ i + Len(sub) <= Len(s)
    /\ SubSeq(s, i + 1, i + Len(sub)) = sub

\* str.find(sub, start): lowest 0-based offset >= start, or -1
find(s, sub, start) ==
    LET hits == {i \in start..Len(s) : MatchAt(s, sub, i)}
    IN  IF hits = {} THEN -1 ELSE CHOOSE i \in hits : \A j \in hits : i <= j

\* str.rfind(sub): highest 0-based offset, or -1
rfind(s, sub) ==
    LET hits == {i \in 0..Len(s) : MatchAt(s, sub, i)}
    IN  IF hits = {} THEN -1 ELSE CHOOSE i \in hits : \A j \in hits : i >= j

\* the "sub in s" operator
contains(s, sub) == find(s, sub, 0) # -1

\* s[a:b] with Python's treatment of negative and out-of-range indices
Slice(s, a, b) ==
    LET n  == Len(s)
        aa == IF a < 0 THEN Max(a + n, 0) ELSE Min(a, n)
        bb == IF b < 0 THEN Max(b + n, 0) ELSE Min(b, n)
    IN  IF bb <= aa THEN <<>> ELSE SubSeq(s, aa + 1, bb)

IsSpace(c) == c \in {" ", "\n"}

\* str.strip()
strip(s) ==
    LET keep == {i \in 1..Len(s) : ~IsSpace(s[i])}
    IN  IF keep = {} THEN <<>>
        ELSE SubSeq(s, CHOOSE i \in keep : \A j \in keep : i <= j,
                       CHOOSE i \in keep : \A j \in keep : i >= j)

\* Python's ordering of str: lexicographic by code point
RECURSIVE StrLess(_, _)
StrLess(a, b) ==
    IF b = <<>> THEN FALSE
    ELSE IF a = <<>> THEN TRUE
    ELSE IF Ord(Head(a)) # Ord(Head(b)) THEN Ord(Head(a)) < Ord(Head(b))
    ELSE StrLess(Tail(a), Tail(b))

\* insert x into an ascending list
RECURSIVE Insert(_, _)
Insert(x, s) ==
    IF s = <<>> THEN <<x>>
    ELSE IF StrLess(x, Head(s)) THEN <<x>> \o s
    ELSE <<Head(s)>> \o Insert(x, Tail(s))

\* sorted(iterable): ascending list of the items the iteration yields
RECURSIVE sorted(_)
sorted(iter) ==
    IF iter = <<>> THEN <<>> ELSE Insert(Head(iter), sorted(Tail(iter)))

\* the orders in which iterating a Python set can yield its elements
RECURSIVE Iterations(_)
Iterations(S) ==
    IF S = {} THEN {<<>>}
    ELSE UNION {{<<x>> \o t : t \in Iterations(S \ {x})} : x \in S}

\* one order in which iterating the set can yield its elements
RECURSIVE OneIteration(_)
OneIteration(S) ==
    IF S = {} THEN <<>>
    ELSE LET x == CHOOSE y \in S : TRUE IN <<x>> \o OneIteration(S \ {x})

Reverse(s) == [i \in 1..Len(s) |-> s[Len(s) + 1 - i]]

\* the iteration orders the batch runners are explored with: two opposite
\* orders of the set (the two-store comparison below explores all of them)
RunnerIterations(S) == {OneIteration(S), Reverse(OneIteration(S))}

\* ------------------------------------------------------------------------
\* Checkpoint store (load_checkpoint / save_checkpoint)
\* ------------------------------------------------------------------------
\* os.path.exists(...) is false
NoFile == "absent"

\* a faulty load_checkpoint that forgets every checkpoint
load_checkpoint_forget(file) == {}

\* load_checkpoint(): set(json.load(f)) if the file exists, else set()
load_checkpoint(file) == IF file # NoFile THEN Range(file) ELSE {}

\* a faulty save_checkpoint that dumps the set in iteration order
save_checkpoint_unsorted(iter) == iter

\* save_checkpoint(processed_set): the file is opened "w" and holds
\* json.dump(sorted(processed_set)); iter is the order in which the set
\* is iterated
save_checkpoint(iter) == sorted(iter)

\* ------------------------------------------------------------------------
\* Source directory
\* ------------------------------------------------------------------------
DotPdf == <<".", "p", "d", "f">>

NameB == <<"b", ".", "p", "d", "f">>

NameTxt == <<"n", ".", "t", "x", "t">>

NameA == <<"A", ".", "P", "D", "F">>

NameC == <<"c", ".", "p", "d", "f">>

NameD == <<"d", ".", "p", "d", "f">>

\* a document checkpointed by an earlier batch and since removed from the
\* source directory
NameOld == <<"o", ".", "p", "d", "f">>

\* the entries os.listdir(SOURCE_FOLDER) can yield, in the (arbitrary but
\* stable) order it yields them
DirEntries == <<NameB, NameTxt, NameA, NameC, NameD>>

\* os.listdir(SOURCE_FOLDER)
listdir == SubSeq(DirEntries, 1, Min(NumEntries, Len(DirEntries)))

\* all_pdfs: the entries whose lower-cased name ends with ".pdf"
all_pdfs(listing) == SelectSeq(listing, LAMBDA fname : endswith(lower(fname), DotPdf))

\* a faulty to_process that lacks the checkpoint filter
ToProcess_unfiltered(pdfs, processed_set) == pdfs

\* to_process = [f for f in all_pdfs if f not in processed]
ToProcess(pdfs, processed_set) == SelectSeq(pdfs, LAMBDA f : f \notin processed_set)

\* ------------------------------------------------------------------------
\* State of a batch runner and of its files
\* ------------------------------------------------------------------------
VARIABLES
    script,            \* which runner is deployed: "main" (src/main.py) or "facesheet"
    pc,                \* position of main(): "idle" = no process running
    ckptFile,          \* CHECKPOINT_FILE: NoFile or the JSON array it holds
    csvExists,         \* os.path.exists(CSV_PATH)
    csvRows,           \* the rows appended to CSV_PATH (document_name of each)
    jsonOut,           \* the JSON files process_facesheet_pdf has written
    processed,         \* main(): the set processed
    to_process,        \* main(): the list to_process
    idx,               \* main(): loop index (0 before the first iteration)
    filename,          \* main(): loop variable
    image_paths,       \* main(): keys of the dict convert_pdf_to_images returned
    header_info,       \* main(): kind of record ollama_process_image returned
    successful_count,  \* main(): successful_count
    error_count,       \* main(): error_count
    run,               \* history: number of times the script was started
    lastEnd,           \* history: how the latest process ended
    prevEnd,           \* history: how the process before the current one ended
    prevPending,       \* history: to_process of the process before the current one
    prevSaved,         \* history: names that process wrote to the checkpoint file
    savedThisRun,      \* history: names this process wrote to the checkpoint file
    loaded,            \* history: the set load_checkpoint returned at startup
    handed,            \* history: names handed to the per-document pipeline, in order
    outcome,           \* history: how the current (or latest) iteration has gone so far
    succeeded,         \* history: names src/main.py added to processed on its success path
    csvAtStart         \* history: number of rows of CSV_PATH when this process started

runnerVars == <<script, pc, ckptFile, csvExists, csvRows, jsonOut, processed,
                to_process, idx, filename, image_paths, header_info,
                successful_count, error_count, run, lastEnd, prevEnd,
                prevPending, prevSaved, savedThisRun, loaded, handed, outcome,
                succeeded, csvAtStart>>

NoName == <<>>

AllNames == Range(DirEntries) \cup {NameOld}

RunnerInit ==
    /\ script \in {"main", "facesheet"}
    /\ pc = "idle"
    \* a fresh deployment, or one whose earlier batch handled NameOld
    /\ \/ /\ ckptFile = NoFile /\ csvExists = FALSE /\ csvRows = <<>> /\ jsonOut = {}
          /\ succeeded = {}
       \/ /\ ckptFile = <<NameOld>>
          /\ succeeded = IF script = "main" THEN {NameOld} ELSE {}
          /\ csvExists = (script = "main")
          /\ csvRows = IF script = "main" THEN <<NameOld>> ELSE <<>>
          /\ jsonOut = IF script = "main" THEN {} ELSE {NameOld}
    /\ processed = {}
    /\ to_process = <<>>
    /\ idx = 0
    /\ filename = NoName
    /\ image_paths = {}
    /\ header_info = "none"
    /\ successful_count = 0
    /\ error_count = 0
    /\ run = 0
    /\ lastEnd = "none"
    /\ prevEnd = "none"
    /\ prevPending = <<>>
    /\ prevSaved = {}
    /\ savedThisRun = {}
    /\ loaded = {}
    /\ handed = <<>>
    /\ outcome = "none"
    /\ csvAtStart = 0

histUnchanged == UNCHANGED <<run, lastEnd, prevEnd, prevPending, prevSaved, loaded, csvAtStart>>

\* the locals of an iteration are dead once it ends (NextDoc and Convert
\* assign them before they are read again)
EndIteration == image_paths' = {} /\ header_info' = "none"

\* main() up to the loop (both runners): load the checkpoint, list the source
\* folder, filter; return at once when nothing is left; src/main.py also
\* writes the CSV header when CSV_PATH is absent
Start ==
    /\ pc \in {"idle", "done"}
    /\ run < MaxRuns
    /\ run' = run + 1
    /\ prevEnd' = lastEnd
    /\ prevPending' = to_process
    /\ prevSaved' = savedThisRun
    /\ savedThisRun' = {}
    /\ processed' = load_checkpoint(ckptFile)
    /\ loaded' = processed'
    /\ to_process' = ToProcess(all_pdfs(listdir), processed')
    /\ idx' = 0
    /\ filename' = NoName
    /\ image_paths' = {}
    /\ header_info' = "none"
    /\ successful_count' = 0
    /\ error_count' = 0
    /\ handed' = <<>>
    /\ outcome' = "none"
    /\ IF to_process' = <<>>
       THEN /\ pc' = "done"
            /\ lastEnd' = "complete"
            /\ UNCHANGED csvExists
       ELSE /\ pc' = "loop"
            /\ lastEnd' = "running"
            /\ csvExists' = (csvExists \/ script = "main")
    /\ csvAtStart' = Len(csvRows)
    /\ UNCHANGED <<script, ckptFile, csvRows, jsonOut, succeeded>>

\* for idx, filename in enumerate(to_process, start=1)
NextDoc ==
    /\ pc = "loop"
    /\ idx < Len(to_process)
    /\ idx' = idx + 1
    /\ filename' = to_process[idx + 1]
    /\ handed' = Append(handed, to_process[idx + 1])
    /\ image_paths' = {}
    /\ header_info' = "none"
    /\ outcome' = "none"
    /\ pc' = IF script = "main" THEN "convert" ELSE "fs_process"
    /\ histUnchanged
    /\ UNCHANGED succeeded
    /\ UNCHANGED <<script, ckptFile, csvExists, csvRows, jsonOut, processed, to_process,
                   successful_count, error_count, savedThisRun>>

\* the loop is exhausted: the final summary is printed and main() returns
Finish ==
    /\ pc = "loop"
    /\ idx = Len(to_process)
    /\ pc' = "done"
    /\ lastEnd' = "complete"
    /\ UNCHANGED <<script, ckptFile, csvExists, csvRows, jsonOut, processed, to_process,
                   idx, filename, image_paths, header_info, successful_count,
                   error_count, run, prevEnd, prevPending, prevSaved, savedThisRun,
                   loaded, handed, outcome, succeeded, csvAtStart>>

\* the process is killed inside the per-document loop, between two of its
\* statements (a file write is one step): its memory is gone, the files stay
\* as they are (to_process and savedThisRun are kept as the record of what
\* the killed process had pending and had saved)
Kill ==
    /\ pc \notin {"idle", "done"}
    /\ pc' = "idle"
    /\ lastEnd' = "killed"
    /\ processed' = {}
    /\ idx' = 0
    /\ filename' = NoName
    /\ image_paths' = {}
    /\ header_info' = "none"
    /\ successful_count' = 0
    /\ error_count' = 0
    /\ loaded' = {}
    /\ handed' = <<>>
    /\ outcome' = "none"
    /\ csvAtStart' = 0
    /\ UNCHANGED <<script, ckptFile, csvExists, csvRows, jsonOut, to_process, run,
                   prevEnd, prevPending, prevSaved, savedThisRun, succeeded>>

\* ------------------------------------------------------------------------
\* Per-document pipeline of src/main.py main()
\* ------------------------------------------------------------------------
\* what convert_pdf_to_images can do: return {'first', 'last'}, return {}
\* (an error inside its try block), or raise (an error while it clears the
\* scratch folder, before its try block)
ConvertResults == {"ok", "empty", "raise"}

\* if not image_paths or "first" not in image_paths
ConvertFailed(paths) == paths = {} \/ "first" \notin paths

\* the checkpoint as the loop leaves it when it moves on to the next document
Persisted == load_checkpoint(ckptFile)

\* image_paths = convert_pdf_to_images(...); on an empty result: error_count += 1; continue
Convert ==
    /\ pc = "convert"
    /\ \E r \in ConvertResults :
        \/ /\ r = "raise"
           /\ pc' = "except"
           /\ outcome' = "convert_raised"
           /\ UNCHANGED <<image_paths, error_count>>
        \/ /\ r # "raise"
           /\ image_paths' = IF r = "ok" THEN {"first", "last"} ELSE {}
           /\ IF ConvertFailed(image_paths')
              THEN /\ error_count' = error_count + 1
                   /\ pc' = "loop"
                   /\ outcome' = "convert_empty"
              ELSE /\ pc' = "header"
                   /\ UNCHANGED <<error_count, outcome>>
    /\ histUnchanged
    /\ UNCHANGED succeeded
    /\ UNCHANGED <<script, ckptFile, csvExists, csvRows, jsonOut, processed, to_process,
                   idx, filename, header_info, successful_count, savedThisRun, handed>>

\* header_info = ollama_process_image(image_paths["first"]): the parsed and
\* validated record, the all-EXTRACTION_FAILED record, or an exception of the
\* first model call, which is made outside the function's try block
ExtractHeader ==
    /\ pc = "header"
    /\ \E r \in {"data", "sentinel", "raise"} :
        IF r = "raise"
        THEN /\ pc' = "except"
             /\ outcome' = "failed_header"
             /\ UNCHANGED header_info
        ELSE /\ pc' = "sig"
             /\ header_info' = r
             /\ UNCHANGED outcome
    /\ histUnchanged
    /\ UNCHANGED succeeded
    /\ UNCHANGED <<script, ckptFile, csvExists, csvRows, jsonOut, processed, to_process,
                   idx, filename, image_paths, successful_count, error_count,
                   savedThisRun, handed>>

\* sig_date = extract_electronic_signature_date(image_paths["last"]): a date
\* or "N/A"; every exception is caught inside the function
ExtractSignature ==
    /\ pc = "sig"
    /\ pc' = "append"
    /\ histUnchanged
    /\ UNCHANGED succeeded
    /\ UNCHANGED <<script, ckptFile, csvExists, csvRows, jsonOut, processed, to_process,
                   idx, filename, image_paths, header_info, successful_count,
                   error_count, savedThisRun, handed, outcome>>

\* a faulty append whose row has not reached CSV_PATH when to_csv returns
RowAppended_buffered(rows, fname) == rows

\* CSV_PATH after row_df.to_csv(CSV_PATH, mode="a", ...) has returned
RowAppended(rows, fname) == Append(rows, fname)

\* row_df.to_csv(CSV_PATH, mode="a", header=False, index=False), or its failure
AppendRow ==
    /\ pc = "append"
    /\ \E r \in {"ok", "raise"} :
        IF r = "ok"
        THEN /\ csvRows' = RowAppended(csvRows, filename)
             /\ pc' = "add"
             /\ UNCHANGED outcome
        ELSE /\ pc' = "except"
             /\ outcome' = "failed_append"
             /\ UNCHANGED csvRows
    /\ histUnchanged
    /\ UNCHANGED succeeded
    /\ UNCHANGED <<script, ckptFile, csvExists, jsonOut, processed, to_process, idx,
                   filename, image_paths, header_info, successful_count, error_count,
                   savedThisRun, handed>>

\* a faulty update that forgets the names the set held
Added_alone(set, fname) == {fname}

\* processed.add(filename)
Added(set, fname) == set \cup {fname}

\* processed.add(filename) on the success path of either runner
MarkProcessed ==
    /\ pc = "add"
    /\ processed' = Added(processed, filename)
    /\ succeeded' = IF script = "main" THEN succeeded \cup {filename} ELSE succeeded
    /\ pc' = "save"
    /\ histUnchanged
    /\ UNCHANGED <<script, ckptFile, csvExists, csvRows, jsonOut, to_process, idx,
                   filename, image_paths, header_info, successful_count, error_count,
                   savedThisRun, handed, outcome>>

\* save_checkpoint(processed) on the success path; src/main.py then counts the
\* success (successful_count += 1) and the iteration ends. When the write
\* raises (the file cannot be opened), the file is as it was and the except
\* clause takes over
SaveCheckpoint ==
    /\ pc = "save"
    /\ \/ /\ \E it \in RunnerIterations(processed) : ckptFile' = save_checkpoint(it)
          /\ savedThisRun' = savedThisRun \cup (Range(ckptFile') \cap Range(to_process))
          /\ successful_count' = IF script = "main" THEN successful_count + 1
                                 ELSE successful_count
          /\ outcome' = IF script = "main" THEN "success" ELSE outcome
          /\ pc' = "loop"
          /\ EndIteration
       \/ /\ pc' = "except"
          /\ outcome' = "failed_save"
          /\ UNCHANGED <<ckptFile, savedThisRun, successful_count, image_paths, header_info>>
    /\ histUnchanged
    /\ UNCHANGED succeeded
    /\ UNCHANGED <<script, csvExists, csvRows, jsonOut, processed, to_process, idx,
                   filename, error_count, handed>>

\* except Exception: error_count += 1; processed.add(filename)
Except ==
    /\ pc = "except"
    /\ error_count' = error_count + 1
    /\ processed' = Added(processed, filename)
    /\ pc' = "exc_save"
    /\ histUnchanged
    /\ UNCHANGED succeeded
    /\ UNCHANGED <<script, ckptFile, csvExists, csvRows, jsonOut, to_process, idx,
                   filename, image_paths, header_info, successful_count,
                   savedThisRun, handed, outcome>>

\* except Exception: save_checkpoint(processed); continue
ExceptSave ==
    /\ pc = "exc_save"
    /\ \E it \in RunnerIterations(processed) : ckptFile' = save_checkpoint(it)
    /\ savedThisRun' = savedThisRun \cup (Range(ckptFile') \cap Range(to_process))
    /\ pc' = "loop"
    /\ EndIteration
    /\ histUnchanged
    /\ UNCHANGED succeeded
    /\ UNCHANGED <<script, csvExists, csvRows, jsonOut, processed, to_process, idx,
                   filename, successful_count, error_count, handed, outcome>>

\* ------------------------------------------------------------------------
\* Per-document step of src/main_facesheet_extraction.py main()
\* ------------------------------------------------------------------------
\* a faulty loop that checkpoints successes only
FsAfterProcess_successOnly(success) == IF success THEN "add" ELSE "loop"

\* after the success / error count the loop goes on to processed.add(filename)
\* and save_checkpoint(processed) whatever process_facesheet_pdf returned
FsAfterProcess(success) == "add"

\* success = process_facesheet_pdf(...): True after the JSON file is written,
\* False on any failure it catches, or an exception it lets through
FsProcess ==
    /\ pc = "fs_process"
    /\ \E r \in {"true", "false", "raise"} :
        \/ /\ r = "true"
           /\ jsonOut' = jsonOut \cup {filename}
           /\ successful_count' = successful_count + 1
           /\ outcome' = "success"
           /\ pc' = FsAfterProcess(TRUE)
           /\ UNCHANGED error_count
        \/ /\ r = "false"
           /\ error_count' = error_count + 1
           /\ outcome' = "returned_false"
           /\ pc' = FsAfterProcess(FALSE)
           /\ UNCHANGED <<jsonOut, successful_count>>
        \/ /\ r = "raise"
           /\ outcome' = "raised"
           /\ pc' = "except"
           /\ UNCHANGED <<jsonOut, successful_count, error_count>>
    /\ histUnchanged
    /\ UNCHANGED succeeded
    /\ UNCHANGED <<script, ckptFile, csvExists, csvRows, processed, to_process, idx,
                   filename, image_paths, header_info, savedThisRun, handed>>

\* the state of the runner while another part is explored: nothing deployed
RunnerIdle ==
    /\ script = "main"
    /\ pc = "idle"
    /\ ckptFile = NoFile
    /\ csvExists = FALSE
    /\ csvRows = <<>>
    /\ jsonOut = {}
    /\ succeeded = {}
    /\ processed = {}
    /\ to_process = <<>>
    /\ idx = 0
    /\ filename = NoName
    /\ image_paths = {}
    /\ header_info = "none"
    /\ successful_count = 0
    /\ error_count = 0
    /\ run = 0
    /\ lastEnd = "none"
    /\ prevEnd = "none"
    /\ prevPending = <<>>
    /\ prevSaved = {}
    /\ savedThisRun = {}
    /\ loaded = {}
    /\ handed = <<>>
    /\ outcome = "none"
    /\ csvAtStart = 0

\* ------------------------------------------------------------------------
\* Response parsing of ollama_process_image (src/main.py and
\* src/main_json_extractor.py; the block is the same in every variant)
\* ------------------------------------------------------------------------
\* the backtick character (the lexer of TLA+ keeps it for itself)
Backtick == "backtick"

\* the opening marker of a fenced JSON block (three backticks and json)
Fence == <<Backtick, Backtick, Backtick, "j", "s", "o", "n">>

\* three backticks
Ticks == <<Backtick, Backtick, Backtick>>

LBrace == <<"{">>

RBrace == <<"}">>

\* the pieces the modelled responses are assembled from
Pieces == {Fence, Ticks, LBrace, RBrace, <<"{", "}">>, <<"\n">>, <<"a">>}

RECURSIVE Concat(_)
Concat(ps) == IF ps = <<>> THEN <<>> ELSE Head(ps) \o Concat(Tail(ps))

\* the responses structured_res['message']['content'] is drawn from
Responses == {Concat(ps) : ps \in UNION {[1..n -> Pieces] : n \in 0..MaxPieces}}

\* "Extract the JSON block": the if / elif / else that sets json_text or
\* raises ValueError("No JSON found in response")
SelectJson(response_text) ==
    IF contains(response_text, Fence)
    THEN LET json_start == find(response_text, Fence, 0) + 7
             json_end   == find(response_text, Ticks, json_start)
         IN  [branch |-> "fence",
              json_text |-> strip(Slice(response_text, json_start, json_end))]
    ELSE IF contains(response_text, LBrace) /\ contains(response_text, RBrace)
    THEN LET json_start == find(response_text, LBrace, 0)
             json_end   == rfind(response_text, RBrace) + 1
         IN  [branch |-> "braces", json_text |-> Slice(response_text, json_start, json_end)]
    ELSE [branch |-> "no_json", json_text |-> <<>>]

\* json.loads succeeds: over the characters of Pieces the only JSON document
\* is the empty object, with optional whitespace around and inside it
JsonValid(text) == SelectSeq(text, LAMBDA c : ~IsSpace(c)) = <<"{", "}">>

\* the fields of the JSON template of the structured prompt, src/main.py
PromptSchemaMain ==
    {"patient_name", "date_of_birth", "gender", "admit_date", "discharge_date",
     "attending_physician", "location", "facility_name", "facility_address",
     "facility_city", "facility_state", "facility_zip", "document_name",
     "document_status", "performed_by", "authenticated_by"}

\* the fields of the JSON template of the structured prompt,
\* src/main_json_extractor.py
PromptSchemaJson == PromptSchemaMain \cup {"medical_record_number"}

PromptSchema(v) == IF v = "main" THEN PromptSchemaMain ELSE PromptSchemaJson

\* the keys of error_data (the same sixteen in both files and in both except
\* clauses)
ErrorFields ==
    {"patient_name", "date_of_birth", "gender", "admit_date", "discharge_date",
     "attending_physician", "location", "facility_name", "facility_address",
     "facility_city", "facility_state", "facility_zip", "document_name",
     "document_status", "performed_by", "authenticated_by"}

\* error_data
ErrorData == [f \in ErrorFields |-> "EXTRACTION_FAILED"]

\* json.loads of the empty object, after validate_extracted_data (which has
\* no field to change)
EmptyRecord == [f \in {} |-> "N/A"]

VARIABLES
    variant,        \* which file's ollama_process_image: "main" or "json_extractor"
    px,             \* "ready", "returned" or "raised"
    response_text,  \* content of the structured response, were the call to succeed
    branch,         \* which branch of the JSON selection ran
    json_text,      \* the candidate handed to json.loads
    failure,        \* "none", "no_json", "decode_error" or "call_error"
    result          \* the record the function returned

parseVars == <<variant, px, response_text, branch, json_text, failure, result>>

ParseInit ==
    /\ variant \in {"main", "json_extractor"}
    /\ px = "ready"
    /\ response_text \in Responses
    /\ branch = "none"
    /\ json_text = <<>>
    /\ failure = "none"
    /\ result = EmptyRecord

\* the state of the parser while a batch runner is explored
ParseIdle ==
    /\ variant = "main"
    /\ px = "ready"
    /\ response_text = <<>>
    /\ branch = "none"
    /\ json_text = <<>>
    /\ failure = "none"
    /\ result = EmptyRecord

\* the first model call (the raw description) raises: it is made before the
\* try block, so ollama_process_image raises
FirstCallRaises ==
    /\ px = "ready"
    /\ px' = "raised"
    /\ UNCHANGED <<variant, response_text, branch, json_text, failure, result>>

\* the structured model call raises: except Exception returns error_data
StructuredCallRaises ==
    /\ px = "ready"
    /\ px' = "returned"
    /\ failure' = "call_error"
    /\ result' = ErrorData
    /\ UNCHANGED <<variant, response_text, branch, json_text>>

\* the structured call answers response_text: select the JSON block, parse it
\* and return the validated record; except (json.JSONDecodeError, ValueError)
\* returns error_data
ParseResponse ==
    /\ px = "ready"
    /\ px' = "returned"
    /\ LET sel == SelectJson(response_text)
       IN  /\ branch' = sel.branch
           /\ json_text' = sel.json_text
           /\ failure' = IF sel.branch = "no_json" THEN "no_json"
                         ELSE IF JsonValid(sel.json_text) THEN "none"
                         ELSE "decode_error"
    /\ result' = IF failure' = "none" THEN EmptyRecord ELSE ErrorData
    /\ UNCHANGED <<variant, response_text>>

\* ------------------------------------------------------------------------
\* Two checkpoint stores side by side: the same save_checkpoint applied to
\* two sets that are filled independently, over files with arbitrary
\* earlier contents
\* ------------------------------------------------------------------------
VARIABLES
    setA,     \* first processed set
    setB,     \* second processed set
    fileA,    \* checkpoint file of the first store
    fileB,    \* checkpoint file of the second store
    savedA,   \* the set the first store held when it was last saved
    savedB    \* the set the second store held when it was last saved

storeVars == <<setA, setB, fileA, fileB, savedA, savedB>>

\* marks a store that has not been saved yet (no set of filenames equals it)
Unsaved == {<<"unsaved">>}

\* the filenames the two sets are filled with
StoreNames == Range(all_pdfs(listdir))

\* what a checkpoint file may hold before it is rewritten
EarlierContents == {NoFile, <<NameOld>>, <<NameC, NameB>>}

StoreInit ==
    /\ setA = {}
    /\ setB = {}
    /\ fileA \in EarlierContents
    /\ fileB \in EarlierContents
    /\ savedA = Unsaved
    /\ savedB = Unsaved

\* the state of the two stores while another part is explored
StoreIdle ==
    /\ setA = {}
    /\ setB = {}
    /\ fileA = NoFile
    /\ fileB = NoFile
    /\ savedA = Unsaved
    /\ savedB = Unsaved

\* processed.add(filename) on the first set
AddA ==
    /\ \E f \in StoreNames \ setA : setA' = setA \cup {f}
    /\ UNCHANGED <<setB, fileA, fileB, savedA, savedB>>

\* processed.add(filename) on the second set
AddB ==
    /\ \E f \in StoreNames \ setB : setB' = setB \cup {f}
    /\ UNCHANGED <<setA, fileA, fileB, savedA, savedB>>

\* save_checkpoint(processed) of the first store
SaveA ==
    /\ savedA # setA
    /\ \E it \in Iterations(setA) : fileA' = save_checkpoint(it)
    /\ savedA' = setA
    /\ UNCHANGED <<setA, setB, fileB, savedB>>

\* save_checkpoint(processed) of the second store
SaveB ==
    /\ savedB # setB
    /\ \E it \in Iterations(setB) : fileB' = save_checkpoint(it)
    /\ savedB' = setB
    /\ UNCHANGED <<setA, setB, fileA, savedA>>

\* ------------------------------------------------------------------------
\* validate_extracted_data and the CSV row of src/main.py
\* ------------------------------------------------------------------------
\* number of fields the parsed JSON object holds at most
MaxFields == 2

\* what json.loads yields for a value: a str, None, a number or a dict
Str(s) == [t |-> "str", v |-> s]

Null == [t |-> "null", v |-> <<>>]

Num == [t |-> "num", v |-> <<"4">>]

Obj == [t |-> "obj", v |-> <<"{", "}">>]

IsStr(x) == x.t = "str"

\* dict.get(key, default)
get(d, key, default) == IF key \in DOMAIN d THEN d[key] ELSE default

\* d[key] = value
Put(d, key, value) == [k \in DOMAIN d \cup {key} |-> IF k = key THEN value ELSE d[k]]

\* "N/A"
NA == <<"N", "/", "A">>

\* ['n/a', 'na', 'not available', 'not visible', '', 'unclear']
Placeholders ==
    {<<"n", "/", "a">>,
     <<"n", "a">>,
     <<"n", "o", "t", " ", "a", "v", "a", "i", "l", "a", "b", "l", "e">>,
     <<"n", "o", "t", " ", "v", "i", "s", "i", "b", "l", "e">>,
     <<>>,
     <<"u", "n", "c", "l", "e", "a", "r">>}

\* the body of the loop over validated.items(): a str is replaced by its
\* strip(), and by "N/A" when value.lower(), of the value as it came, is one
\* of the placeholders
CleanValue(value) ==
    IF IsStr(value)
    THEN IF lower(value.v) \in Placeholders THEN Str(NA) ELSE Str(strip(value.v))
    ELSE value

\* for key, value in validated.items(): ...
CleanFields(data) == [key \in DOMAIN data |-> CleanValue(data[key])]

\* validate_extracted_data returned the mapping d
Returned(d) == [raised |-> FALSE, data |-> d]

\* validate_extracted_data raised (AttributeError or TypeError)
Raised == [raised |-> TRUE, data |-> <<>>]

\* "Document status inference": .lower() of the authenticated_by value,
\* which raises on a value that is not a str
InferStatus(validated) ==
    IF get(validated, "document_status", Null) = Str(NA)
    THEN LET auth_info == get(validated, "authenticated_by", Str(<<>>))
         IN  IF ~IsStr(auth_info) THEN Raised
             ELSE IF \/ contains(lower(auth_info.v), <<"v", "e", "r", "i", "f", "i", "e", "d">>)
                     \/ contains(lower(auth_info.v), <<"a", "u", "t", "h">>)
             THEN Returned([validated EXCEPT
                      !["document_status"] = Str(<<"V", "e", "r", "i", "f", "i", "e", "d">>)])
             ELSE Returned(validated)
    ELSE Returned(validated)

\* "Facility name correction": facility_name.lower() raises on a value that
\* is not a str
CorrectFacility(validated) ==
    LET facility_name == get(validated, "facility_name", Str(<<>>))
    IN  IF ~IsStr(facility_name) THEN Raised
        ELSE IF /\ contains(lower(facility_name.v),
                            <<"a", "d", "v", "e", "n", "t", "i", "s", "t">>)
                /\ ~contains(lower(facility_name.v),
                             <<"w", "h", "i", "t", "e", " ", "o", "a", "k">>)
        THEN Returned([validated EXCEPT !["facility_name"] =
                 Str(<<"W", "h", "i", "t", "e", " ", "O", "a", "k", " ", "M", "e", "d",
                       "i", "c", "a", "l", " ", "C", "e", "n", "t", "e", "r">>)])
        ELSE Returned(validated)

\* a faulty location test that lacks the startswith('LD:') guard
NeedsPrefix_unguarded(location) ==
    /\ location # NA
    /\ contains(location, <<"T", "R">>) \/ contains(location, <<"t", "r">>)

\* location != "N/A" and not location.startswith('LD:')
\*     and ('TR' in location or 'tr' in location)
NeedsPrefix(location) ==
    /\ location # NA
    /\ ~startswith(location, <<"L", "D", ":">>)
    /\ contains(location, <<"T", "R">>) \/ contains(location, <<"t", "r">>)

\* "Location format check": location.startswith raises on a value that is
\* not a str
FormatLocation(validated) ==
    LET location == get(validated, "location", Str(<<>>))
    IN  IF ~IsStr(location) THEN Raised
        ELSE IF NeedsPrefix(location.v)
        THEN Returned([validated EXCEPT
                 !["location"] = Str(<<"L", "D", ":", " ">> \o location.v)])
        ELSE Returned(validated)

\* "Performed by inference": 'MD' in auth_by raises on None and on a number,
\* and is False on a dict without that key
InferPerformedBy(validated) ==
    IF get(validated, "performed_by", Null) = Str(NA)
    THEN LET auth_by == get(validated, "authenticated_by", Str(<<>>))
         IN  IF auth_by.t \in {"null", "num"} THEN Raised
             ELSE IF auth_by.t = "obj" THEN Returned(validated)
             ELSE IF auth_by.v # NA /\ contains(auth_by.v, <<"M", "D">>)
             THEN Returned([validated EXCEPT !["performed_by"] = auth_by])
             ELSE Returned(validated)
    ELSE Returned(validated)

\* validate_extracted_data(data): the loop, then the four blocks in order,
\* each run unless an earlier one raised
validate_extracted_data(data) ==
    LET status   == InferStatus(CleanFields(data))
        facility == IF status.raised THEN status ELSE CorrectFacility(status.data)
        location == IF facility.raised THEN facility ELSE FormatLocation(facility.data)
    IN  IF location.raised THEN location ELSE InferPerformedBy(location.data)

\* the fields of the parsed object that are modelled with values of their
\* own (the other fields of the schema are absent from it)
ModelledFields ==
    {"gender", "document_status", "authenticated_by", "facility_name",
     "location", "performed_by"}

\* the values a field of the parsed object is drawn from
FieldValues(key) ==
    CASE key = "gender" ->
           {Null, Num, Str(NA), Str(<<"n", "/", "a">>), Str(<<>>),
            Str(<<" ", "n", "/", "a", " ">>), Str(<<" ">>), Str(<<"N", "A">>),
            Str(<<" ", "F", " ">>), Str(<<"U", "n", "c", "l", "e", "a", "r">>),
            Str(<<"N", "o", "t", " ", "V", "i", "s", "i", "b", "l", "e">>)}
      [] key = "document_status" ->
           {Null, Num, Obj, Str(NA), Str(<<"n", "/", "a">>),
            Str(<<"F", "i", "n", "a", "l">>)}
      [] key = "authenticated_by" ->
           {Null, Num, Obj, Str(NA), Str(<<"A", " ", "M", "D">>),
            Str(<<"V", "e", "r", "i", "f", "i", "e", "d">>),
            Str(<<"a", "u", "t", "h", " ", "B">>)}
      [] key = "facility_name" ->
           {Null, Num, Obj, Str(NA),
            Str(<<"A", "d", "v", "e", "n", "t", "i", "s", "t", " ", "H", "C">>),
            Str(<<"A", "d", "v", "e", "n", "t", "i", "s", "t", " ",
                  "W", "h", "i", "t", "e", " ", "O", "a", "k">>)}
      [] key = "location" ->
           {Null, Num, Obj, Str(NA), Str(<<"n", "/", "a">>), Str(<<"T", "R", "4">>),
            Str(<<" ", "T", "R", "4", " ">>), Str(<<"L", "D", ":", " ", "T", "R", "4">>),
            Str(<<"t", "r", "2">>), Str(<<"I", "C", "U">>)}
      [] key = "performed_by" ->
           {Null, Num, Str(NA), Str(<<"R", "N", " ", "B">>)}

\* the objects json.loads is taken to return: at most MaxFields of the
\* modelled fields, each with one of its values
RECURSIVE ObjectsOver(_)
ObjectsOver(K) ==
    IF K = {} THEN {<<>>}
    ELSE LET k == CHOOSE x \in K : TRUE
         IN  {Put(d, k, value) : d \in ObjectsOver(K \ {k}), value \in FieldValues(k)}

ParsedObjects ==
    UNION {ObjectsOver(K) : K \in {J \in SUBSET ModelledFields : Cardinality(J) <= MaxFields}}

\* expected_columns
expected_columns ==
    <<"patient_name", "date_of_birth", "gender", "admit_date", "discharge_date",
      "attending_physician", "location", "facility_name", "facility_address",
      "facility_city", "facility_state", "facility_zip", "document_name",
      "document_status", "performed_by", "authenticated_by",
      "electronically_signed_date">>

\* error_data as ollama_process_image returns it
FailedRecord ==
    [f \in ErrorFields |->
        Str(<<"E", "X", "T", "R", "A", "C", "T", "I", "O", "N", "_",
              "F", "A", "I", "L", "E", "D">>)]

\* what to_csv writes for a value: None gives an empty cell
to_csv_cell(x) == IF x.t = "null" THEN <<>> ELSE x.v

\* [header_info.get(col, "N/A") for col in expected_columns], as written
Row(info) ==
    [i \in 1..Len(expected_columns) |-> to_csv_cell(get(info, expected_columns[i], Str(NA)))]

\* what extract_electronic_signature_date returns: a date or "N/A"
SignatureDates == {Str(NA), Str(<<"0", "1", "/", "0", "2", "/", "2", "0", "2", "5">>)}

\* datetime.now().isoformat()
Timestamp == Str(<<"2", "0", "2", "5">>)

VARIABLES
    extracted_data,  \* ollama_process_image: the object json.loads returned
    sig_date,        \* main(): what extract_electronic_signature_date returned
    rx,              \* "idle", "prepared", "returned", "combined" or "appended"
    vraised,         \* history: validate_extracted_data raised for this document
    header_record,   \* main(): header_info, from ollama_process_image's return on
    csvLines,        \* CSV_PATH: NoFile or its lines (header, then rows of cells)
    recRun,          \* history: number of runs of main() so far
    headerWrites     \* history: number of times the header line was written

recordVars == <<extracted_data, sig_date, rx, vraised, header_record, csvLines, recRun, headerWrites>>

\* the document a run of this part works on
RecFilename == all_pdfs(listdir)[Min(recRun, Len(all_pdfs(listdir)))]

RecordInit ==
    /\ extracted_data \in ParsedObjects
    /\ sig_date \in SignatureDates
    /\ rx = "idle"
    /\ vraised = FALSE
    /\ header_record = EmptyRecord
    /\ csvLines = NoFile
    /\ recRun = 0
    /\ headerWrites = 0

\* the state of this part while another part is explored
RecordIdle ==
    /\ extracted_data = EmptyRecord
    /\ sig_date = Str(NA)
    /\ rx = "idle"
    /\ vraised = FALSE
    /\ header_record = EmptyRecord
    /\ csvLines = NoFile
    /\ recRun = 0
    /\ headerWrites = 0

\* main(): if not os.path.exists(CSV_PATH): write the header line
RecPrepare ==
    /\ rx = "idle"
    /\ recRun < MaxRuns
    /\ recRun' = recRun + 1
    /\ IF csvLines = NoFile
       THEN csvLines' = <<expected_columns>> /\ headerWrites' = headerWrites + 1
       ELSE UNCHANGED <<csvLines, headerWrites>>
    /\ rx' = "prepared"
    /\ vraised' = FALSE
    /\ header_record' = EmptyRecord
    /\ UNCHANGED <<extracted_data, sig_date>>

\* ollama_process_image from json.loads on: validated_data =
\* validate_extracted_data(extracted_data) is returned, or error_data by
\* "except Exception" when the validation raised
RecValidate ==
    /\ rx = "prepared"
    /\ LET validated_data == validate_extracted_data(extracted_data)
       IN  /\ vraised' = validated_data.raised
           /\ header_record' = IF validated_data.raised THEN FailedRecord
                               ELSE validated_data.data
    /\ rx' = "returned"
    /\ UNCHANGED <<extracted_data, sig_date, csvLines, recRun, headerWrites>>

\* main(): "Combine results"
RecCombine ==
    /\ rx = "returned"
    /\ header_record' =
           Put(Put(Put(header_record, "electronically_signed_date", sig_date),
                   "document_name", Str(RecFilename)),
               "processed_timestamp", Timestamp)
    /\ rx' = "combined"
    /\ UNCHANGED <<extracted_data, sig_date, vraised, csvLines, recRun, headerWrites>>

\* main(): "Append a row to CSV"
RecAppend ==
    /\ rx = "combined"
    /\ csvLines' = Append(csvLines, Row(header_record))
    /\ rx' = "appended"
    /\ UNCHANGED <<extracted_data, sig_date, vraised, header_record, recRun, headerWrites>>

\* the run ends; the next run of main() meets the next document
RecEnd ==
    /\ rx = "appended"
    /\ rx' = "idle"
    /\ UNCHANGED <<extracted_data, sig_date, vraised, header_record, csvLines, recRun, headerWrites>>

\* ------------------------------------------------------------------------
\* Input selection: the directory listing of the batch runners and of
\* src/pdf_file_copy.py
\* ------------------------------------------------------------------------
\* number of entries of a listed directory
MaxListing == 3

\* a hidden entry with the .pdf suffix
NameHidden == <<".", "b", ".", "p", "d", "f">>

\* a directory whose name has the .pdf suffix
NameDir == <<"x", ".", "p", "d", "f">>

\* the entries a listed directory is made of
EntryPool == {NameB, NameTxt, NameA, NameC, NameHidden, NameDir}

\* os.path.isfile(os.path.join(source_dir, f))
isfile(f) == f # NameDir

\* the listings os.listdir can return: distinct entries in any order
Listings ==
    UNION {{l \in [1..n -> EntryPool] : \A i, j \in 1..n : i # j => l[i] # l[j]} :
           n \in 0..MaxListing}

\* files of src/pdf_file_copy.py: .pdf suffix, not hidden, a regular file;
\* then files.sort()
copy_files(listing) ==
    sorted(SelectSeq(listing,
               LAMBDA f : /\ endswith(lower(f), DotPdf)
                          /\ ~startswith(f, <<".">>)
                          /\ isfile(f)))

VARIABLES
    dirListing,   \* what os.listdir returns for the source directory
    ckptLoaded,   \* the set load_checkpoint returned
    lx,           \* "fresh" or "listed"
    lister,       \* which script listed: "main", "facesheet" or "copy"
    considered,   \* all_pdfs (files in src/pdf_file_copy.py)
    selected      \* to_process (the file copied in src/pdf_file_copy.py)

listingVars == <<dirListing, ckptLoaded, lx, lister, considered, selected>>

ListingInit ==
    /\ dirListing \in Listings
    /\ ckptLoaded \in {{}, {NameB}, {NameHidden, NameOld}}
    /\ lx = "fresh"
    /\ lister = "none"
    /\ considered = <<>>
    /\ selected = <<>>

\* the state of this part while another part is explored
ListingIdle ==
    /\ dirListing = <<>>
    /\ ckptLoaded = {}
    /\ lx = "fresh"
    /\ lister = "none"
    /\ considered = <<>>
    /\ selected = <<>>

\* src/main.py main(): all_pdfs and to_process
ListMain ==
    /\ lx = "fresh"
    /\ lx' = "listed"
    /\ lister' = "main"
    /\ considered' = all_pdfs(dirListing)
    /\ selected' = ToProcess(considered', ckptLoaded)
    /\ UNCHANGED <<dirListing, ckptLoaded>>

\* src/main_facesheet_extraction.py main(): all_pdfs and to_process
ListFacesheet ==
    /\ lx = "fresh"
    /\ lx' = "listed"
    /\ lister' = "facesheet"
    /\ considered' = all_pdfs(dirListing)
    /\ selected' = ToProcess(considered', ckptLoaded)
    /\ UNCHANGED <<dirListing, ckptLoaded>>

\* src/pdf_file_copy.py: files, and the first of them is copied
ListCopy ==
    /\ lx = "fresh"
    /\ lx' = "listed"
    /\ lister' = "copy"
    /\ considered' = copy_files(dirListing)
    /\ selected' = IF considered' = <<>> THEN <<>> ELSE <<considered'[1]>>
    /\ UNCHANGED <<dirListing, ckptLoaded>>

\* ------------------------------------------------------------------------
\* convert_pdf_to_images and the scratch directory (src/main.py: first and
\* last page; src/main_json_extractor.py: all pages)
\* ------------------------------------------------------------------------
\* number of documents converted one after the other
MaxDocs == 3

\* number of pages of a document
MaxPageCount == 3

Digits == <<"1", "2", "3", "4", "5", "6", "7", "8", "9">>

\* os.path.join(output_folder, f"page_{n}.png"), as a name in the folder
PageName(n) == <<"p", "a", "g", "e", "_", Digits[n], ".", "p", "n", "g">>

\* a file of the scratch directory that is not an image
NotesTxt == <<"n", "o", "t", "e", "s", ".", "t", "x", "t">>

\* images left behind by an earlier batch
StaleJpg == <<"s", "c", "a", "n", ".", "J", "P", "G">>

StaleJpeg == <<"o", "l", "d", ".", "j", "p", "e", "g">>

\* what a file of the scratch directory holds: the page of a document
\* (document 0 stands for anything that is not of this batch)
PageOf(d, n) == [doc |-> d, page |-> n]

\* fname.lower().endswith((".png", ".jpg", ".jpeg"))
IsRasterName(fname) ==
    \/ endswith(lower(fname), <<".", "p", "n", "g">>)
    \/ endswith(lower(fname), <<".", "j", "p", "g">>)
    \/ endswith(lower(fname), <<".", "j", "p", "e", "g">>)

\* the folder with the files of the set names removed
Without(folder, names) == [f \in DOMAIN folder \ names |-> folder[f]]

\* a faulty clearing that removes nothing
ClearedFolder_nothing(folder) == folder

\* "Clear any existing PNG/JPG files", run to its end
ClearedFolder(folder) == Without(folder, {f \in DOMAIN folder : IsRasterName(f)})

\* image.save(path, "PNG"): the file is created or overwritten
Saved(folder, path, content) ==
    [f \in DOMAIN folder \cup {path} |-> IF f = path THEN content ELSE folder[f]]

\* a faulty last page: always page 2
last_page_second(total_pages) == 2

\* convert_from_path(pdf_path, first_page=total_pages, last_page=total_pages)
last_page(total_pages) == total_pages

\* a faulty except clause that returns the paths gathered so far
OnRasterError_partial(paths) == paths

\* except Exception: return {} (return [] in src/main_json_extractor.py)
OnRasterError(paths) == <<>>

\* cropped_img.save(image_path, "PNG"): the file now holds the top third of
\* what it held
HeaderCrop(content) == [doc |-> content.doc, page |-> content.page, part |-> "header"]

VARIABLES
    mode,         \* "first_last" (src/main.py) or "all" (src/main_json_extractor.py)
    cx,           \* position of convert_pdf_to_images; "idle" between two calls
    scratch,      \* the scratch directory: file name -> what the file holds
    rdoc,         \* number of the document being converted (0 before the first)
    total_pages,  \* info.get("Pages", 0) of that document
    rpaths,       \* image_paths: what the call returns (<<>> is {} and [])
    removed,      \* history: the documents whose files this call's clearing removed
    prevResult,   \* history: how the call for the previous document ended
    failed_at,    \* history: the step of this call that raised ("none" if none)
    sig_input,    \* what extract_electronic_signature_date read for this document
    text_input    \* what extract_full_document_text read, page by page

rasterVars == <<mode, cx, scratch, rdoc, total_pages, rpaths, removed, prevResult,
                failed_at, sig_input, text_input>>

\* no image read yet
NoImage == PageOf(0, 0)

\* the scratch directories a batch can start with
EarlierScratch ==
    {<<>>,
     Saved(Saved(Saved(Saved(<<>>, NotesTxt, PageOf(0, 0)), StaleJpg, PageOf(0, 1)),
                 StaleJpeg, PageOf(0, 2)),
           PageName(2), PageOf(0, 2))}

RasterInit ==
    /\ mode \in {"first_last", "all"}
    /\ cx = "idle"
    /\ scratch \in EarlierScratch
    /\ rdoc = 0
    /\ total_pages = 0
    /\ rpaths = <<>>
    /\ removed = {}
    /\ prevResult = "none"
    /\ failed_at = "none"
    /\ sig_input = NoImage
    /\ text_input = <<>>

\* the state of this part while another part is explored
RasterIdle ==
    /\ mode = "first_last"
    /\ cx = "idle"
    /\ scratch = <<>>
    /\ rdoc = 0
    /\ total_pages = 0
    /\ rpaths = <<>>
    /\ removed = {}
    /\ prevResult = "none"
    /\ failed_at = "none"
    /\ sig_input = NoImage
    /\ text_input = <<>>

\* how the call that has just ended went
ResultKind ==
    IF cx = "raised" THEN "raised" ELSE IF rpaths = <<>> THEN "empty" ELSE "ok"

\* the caller goes on to the next document and calls convert_pdf_to_images:
\* at the start, after a call that raised or returned nothing, after a model
\* call of ollama_process_image raised, and at the end of an iteration
RasterBegin ==
    /\ \/ cx \in {"idle", "raised", "header", "texted"}
       \/ cx = "returned" /\ rpaths = <<>>
       \/ cx = "signed" /\ mode = "first_last"
    /\ rdoc < MaxDocs
    /\ failed_at' = "none"
    /\ sig_input' = NoImage
    /\ text_input' = <<>>
    /\ rdoc' = rdoc + 1
    /\ prevResult' = IF cx = "idle" THEN "none" ELSE ResultKind
    /\ total_pages' \in 1..MaxPageCount
    /\ rpaths' = <<>>
    /\ removed' = {}
    /\ cx' = "clear"
    /\ UNCHANGED <<mode, scratch>>

\* the clearing loop, before the try block: it runs to its end, or an
\* os.remove raises after some of the images are gone and the exception
\* leaves convert_pdf_to_images
ClearScratch ==
    /\ cx = "clear"
    /\ \/ /\ scratch' = ClearedFolder(scratch)
          /\ cx' = "info"
       \/ /\ \E gone \in SUBSET {f \in DOMAIN scratch : IsRasterName(f)} :
                /\ gone # {f \in DOMAIN scratch : IsRasterName(f)}
                /\ scratch' = Without(scratch, gone)
          /\ cx' = "raised"
    /\ failed_at' = IF cx' = "raised" THEN "clear" ELSE "none"
    /\ removed' = {scratch[f].doc : f \in DOMAIN scratch \ DOMAIN scratch'}
    /\ UNCHANGED <<mode, rdoc, total_pages, rpaths, prevResult, sig_input, text_input>>

\* info = pdfinfo_from_path(pdf_path), or its exception: return {}
PdfInfo ==
    /\ cx = "info"
    /\ \/ /\ cx' = IF mode = "first_last" THEN "first" ELSE "all"
          /\ UNCHANGED <<rpaths, failed_at>>
       \/ /\ cx' = "returned"
          /\ rpaths' = OnRasterError(rpaths)
          /\ failed_at' = "info"
    /\ UNCHANGED <<mode, scratch, rdoc, total_pages, removed, prevResult, sig_input, text_input>>

\* src/main.py "Convert first page only": page_1.png is written, or an
\* exception: return {}
SaveFirst ==
    /\ cx = "first"
    /\ \/ /\ scratch' = Saved(scratch, PageName(1), PageOf(rdoc, 1))
          /\ rpaths' = [k \in {"first"} |-> PageName(1)]
          /\ cx' = "last"
          /\ UNCHANGED failed_at
       \/ /\ cx' = "returned"
          /\ rpaths' = OnRasterError(rpaths)
          /\ failed_at' = "first"
          /\ UNCHANGED scratch
    /\ UNCHANGED <<mode, rdoc, total_pages, removed, prevResult, sig_input, text_input>>

\* src/main.py "Convert last page only (if more than one page)", else the
\* first-page image is reused; return image_paths, or {} on an exception
SaveLast ==
    /\ cx = "last"
    /\ cx' = "returned"
    /\ IF total_pages > 1
       THEN \/ /\ scratch' = Saved(scratch, PageName(last_page(total_pages)),
                                   PageOf(rdoc, last_page(total_pages)))
               /\ rpaths' = [k \in {"first", "last"} |->
                                IF k = "first" THEN rpaths["first"]
                                ELSE PageName(last_page(total_pages))]
               /\ UNCHANGED failed_at
            \/ /\ rpaths' = OnRasterError(rpaths)
               /\ failed_at' = "last"
               /\ UNCHANGED scratch
       ELSE /\ rpaths' = [k \in {"first", "last"} |-> rpaths["first"]]
            /\ UNCHANGED <<scratch, failed_at>>
    /\ UNCHANGED <<mode, rdoc, total_pages, removed, prevResult, sig_input, text_input>>

\* src/main_json_extractor.py "Convert ALL pages": page_1.png .. page_n.png
\* are written and the list returned, or an exception after some of them:
\* return []
SaveAll ==
    /\ cx = "all"
    /\ cx' = "returned"
    /\ \E n \in 0..total_pages :
         /\ scratch' = [f \in DOMAIN scratch \cup {PageName(i) : i \in 1..n} |->
                           IF \E i \in 1..n : f = PageName(i)
                           THEN PageOf(rdoc, CHOOSE i \in 1..n : f = PageName(i))
                           ELSE scratch[f]]
         /\ rpaths' = IF n = total_pages THEN [i \in 1..n |-> PageName(i)]
                      ELSE OnRasterError([i \in 1..n |-> PageName(i)])
         /\ failed_at' = IF n = total_pages THEN "none" ELSE "all"
    /\ UNCHANGED <<mode, rdoc, total_pages, removed, prevResult, sig_input, text_input>>

\* image_paths["first"] of src/main.py, image_paths[0] of src/main_json_extractor.py
FirstPath == IF mode = "first_last" THEN rpaths["first"] ELSE rpaths[1]

\* image_paths["last"] of src/main.py, image_paths[-1] of src/main_json_extractor.py
LastPath == IF mode = "first_last" THEN rpaths["last"] ELSE rpaths[Len(rpaths)]

\* ollama_process_image begins with crop_image_to_header(image_path): the
\* crop is saved over the first-page image, or an exception is caught inside
\* and the file is left as it is
Crop ==
    /\ cx = "returned"
    /\ rpaths # <<>>
    /\ cx' = "header"
    /\ \/ scratch' = Saved(scratch, FirstPath, HeaderCrop(scratch[FirstPath]))
       \/ UNCHANGED scratch
    /\ UNCHANGED <<mode, rdoc, total_pages, rpaths, removed, prevResult, failed_at,
                   sig_input, text_input>>

\* sig_date = extract_electronic_signature_date(<last path>): the model is
\* handed the file as it is now
ReadSignature ==
    /\ cx = "header"
    /\ cx' = "signed"
    /\ sig_input' = scratch[LastPath]
    /\ UNCHANGED <<mode, scratch, rdoc, total_pages, rpaths, removed, prevResult,
                   failed_at, text_input>>

\* full_text = extract_full_document_text(image_paths) of
\* src/main_json_extractor.py: every image is read as it is now
ReadFullText ==
    /\ cx = "signed"
    /\ mode = "all"
    /\ cx' = "texted"
    /\ text_input' = [i \in 1..Len(rpaths) |-> scratch[rpaths[i]]]
    /\ UNCHANGED <<mode, scratch, rdoc, total_pages, rpaths, removed, prevResult,
                   failed_at, sig_input>>

\* ------------------------------------------------------------------------
\* detect_pdf_type and extract_full_document_text_hybrid
\* (src/main_json_extractor_troubleshoot.py)
\* ------------------------------------------------------------------------
\* number of pages of a classified document
MaxPages == 4

\* The text of a page is kept run-length encoded: a sequence of runs <<c, n>>,
\* each standing for n >= 1 times the character c.
\* k words of w characters c, with g spaces between two words
RECURSIVE WordsText(_, _, _, _)
WordsText(k, w, c, g) ==
    IF k = 0 THEN <<>>
    ELSE IF k = 1 THEN <<<<c, w>>>>
    ELSE <<<<c, w>>, <<" ", g>>>> \o WordsText(k - 1, w, c, g)

\* the kinds of text layer a page is modelled with
PageKinds == {"empty", "prose", "solid", "sparse", "short", "digits"}

\* page.extract_text() of PyPDF2 on a page of each kind: no text; twelve
\* words of nine letters; one unbroken run of 200 letters; twenty words of
\* ten letters set eleven spaces apart; a line of four words; twelve words
\* of nine digits
PageText(kind) ==
    CASE kind = "empty" -> <<>>
      [] kind = "prose" -> WordsText(12, 9, "e", 1) \o <<<<"\n", 1>>>>
      [] kind = "solid" -> <<<<"e", 200>>>>
      [] kind = "sparse" -> WordsText(20, 10, "e", 11) \o <<<<"\n", 1>>>>
      [] kind = "short" -> WordsText(4, 10, "e", 1) \o <<<<"\n", 1>>>>
      [] kind = "digits" -> WordsText(12, 9, "7", 1) \o <<<<"\n", 1>>>>

\* how pdfplumber reads the document: the same text as PyPDF2, no text at
\* all (extract_text() returns None), or the same text with an unbroken run
\* of letters split into words
PlumberViews == {"same", "none", "respaced"}

\* None, as page.extract_text() of pdfplumber returns it
NoText == <<"None">>

\* page.extract_text() of pdfplumber
PlumberText(view, kind) ==
    IF view = "none" THEN NoText
    ELSE IF view = "respaced" /\ kind = "solid"
    THEN WordsText(20, 10, "e", 1) \o <<<<"\n", 1>>>>
    ELSE PageText(kind)

\* c.isalpha()
isalpha(c) == c \in Range(UpperCase) \cup Range(LowerCase)

\* c.isspace()
isspace(c) == c \in {" ", "\n", "\r"}

\* str.lstrip() on runs
RECURSIVE lstrip(_)
lstrip(text) ==
    IF text = <<>> THEN <<>>
    ELSE IF isspace(Head(text)[1]) THEN lstrip(Tail(text))
    ELSE text

\* str.rstrip() on runs
RECURSIVE rstrip(_)
rstrip(text) ==
    IF text = <<>> THEN <<>>
    ELSE IF isspace(text[Len(text)][1]) THEN rstrip(SubSeq(text, 1, Len(text) - 1))
    ELSE text

\* total_text.strip().replace('\n', ' ').replace('\r', ' ')
CleanText(total_text) ==
    LET stripped == rstrip(lstrip(total_text))
    IN  [i \in 1..Len(stripped) |->
            IF stripped[i][1] \in {"\n", "\r"} THEN <<" ", stripped[i][2]>> ELSE stripped[i]]

\* the number of characters of the runs lo..hi of a text
RECURSIVE RunsLength(_, _, _)
RunsLength(text, lo, hi) ==
    IF lo > hi THEN 0
    ELSE IF lo = hi THEN text[lo][2]
    ELSE LET mid == (lo + hi) \div 2
         IN  RunsLength(text, lo, mid) + RunsLength(text, mid + 1, hi)

\* len(clean_text)
TextLength(text) == RunsLength(text, 1, Len(text))

\* len(clean_text.split()) if clean_text else 0: the runs that begin a word
WordCount(clean_text) ==
    Cardinality({i \in 1..Len(clean_text) :
                    /\ ~isspace(clean_text[i][1])
                    /\ i = 1 \/ isspace(clean_text[i - 1][1])})

\* sum(c.isalpha() for c in clean_text)
AlphaCount(clean_text) ==
    TextLength(SelectSeq(clean_text, LAMBDA r : isalpha(r[1])))

\* text_length > 100 and word_count > 10, and then alpha_ratio > 0.5 with
\* alpha_ratio = (alphabetic characters) / len(clean_text)
LooksLikeText(clean_text) ==
    /\ TextLength(clean_text) > 100
    /\ WordCount(clean_text) > 10
    /\ 2 * AlphaCount(clean_text) > TextLength(clean_text)

\* pages_to_check = min(3, len(pdf_reader.pages))
pages_to_check(pages) == Min(3, Len(pages))

\* PyPDF2: total_text += page_text over the sampled pages
RECURSIVE TotalText(_, _)
TotalText(pages, n) ==
    IF n = 0 THEN <<>> ELSE TotalText(pages, n - 1) \o PageText(pages[n])

\* pdfplumber: if page_text: total_text_plumber += page_text
RECURSIVE TotalTextPlumber(_, _, _)
TotalTextPlumber(view, pages, n) ==
    IF n = 0 THEN <<>>
    ELSE LET page_text == PlumberText(view, pages[n])
         IN  IF page_text = NoText \/ page_text = <<>>
             THEN TotalTextPlumber(view, pages, n - 1)
             ELSE TotalTextPlumber(view, pages, n - 1) \o page_text

\* a faulty dispatch that sends a failed classification down the direct path
HybridPath_errorDirect(type) == IF type \in {"true_pdf", "error"} THEN "direct" ELSE "vision"

\* extract_full_document_text_hybrid: if / elif / else on pdf_type
HybridPath(type) == IF type = "true_pdf" THEN "direct" ELSE "vision"

VARIABLES
    doc_pages,     \* the kind of text layer of each page of the document
    plumber_view,  \* how pdfplumber reads the document
    dx,            \* "start", "secondary", "detected", "extracted", "written", "skipped"
    pdf_type,      \* what detect_pdf_type returned
    tried,         \* history: the extraction methods detect_pdf_type ran
    detectRaised,  \* history: an extraction inside detect_pdf_type raised
    path,          \* history: the branch extract_full_document_text_hybrid took
    full_text,     \* what extract_full_document_text_hybrid returned
    json_record    \* the JSON file main() wrote for the document

classifyVars == <<doc_pages, plumber_view, dx, pdf_type, tried, detectRaised, path,
                  full_text, json_record>>

\* no JSON file written
NoRecord == [pdf_type |-> "none", extraction_method |-> "none", full_document_text |-> "none"]

ClassifyInit ==
    /\ doc_pages \in UNION {[1..n -> PageKinds] : n \in 1..MaxPages}
    /\ plumber_view \in PlumberViews
    /\ dx = "start"
    /\ pdf_type = "none"
    /\ tried = {}
    /\ detectRaised = FALSE
    /\ path = "none"
    /\ full_text = "none"
    /\ json_record = NoRecord

\* the state of this part while another part is explored
ClassifyIdle ==
    /\ doc_pages = <<>>
    /\ plumber_view = "same"
    /\ dx = "start"
    /\ pdf_type = "none"
    /\ tried = {}
    /\ detectRaised = FALSE
    /\ path = "none"
    /\ full_text = "none"
    /\ json_record = NoRecord

\* detect_pdf_type, "Method 1": PyPDF2 over the sampled pages and the
\* heuristic on its text; "except Exception" returns 'error'
DetectPrimary ==
    /\ dx = "start"
    /\ tried' = {"PyPDF2"}
    /\ \/ /\ detectRaised' = TRUE
          /\ pdf_type' = "error"
          /\ dx' = "detected"
       \/ /\ UNCHANGED detectRaised
          /\ IF LooksLikeText(CleanText(TotalText(doc_pages, pages_to_check(doc_pages))))
             THEN pdf_type' = "true_pdf" /\ dx' = "detected"
             ELSE pdf_type' = "none" /\ dx' = "secondary"
    /\ UNCHANGED <<doc_pages, plumber_view, path, full_text, json_record>>

\* detect_pdf_type, "If PyPDF2 fails, try pdfplumber": the same heuristic on
\* its text, else 'scanned_pdf'; "except Exception" returns 'error'
DetectSecondary ==
    /\ dx = "secondary"
    /\ tried' = tried \cup {"pdfplumber"}
    /\ dx' = "detected"
    /\ \/ /\ detectRaised' = TRUE
          /\ pdf_type' = "error"
       \/ /\ UNCHANGED detectRaised
          /\ pdf_type' =
               IF LooksLikeText(CleanText(
                      TotalTextPlumber(plumber_view, doc_pages, pages_to_check(doc_pages))))
               THEN "true_pdf" ELSE "scanned_pdf"
    /\ UNCHANGED <<doc_pages, plumber_view, path, full_text, json_record>>

\* extract_full_document_text_hybrid after detect_pdf_type: the direct
\* extraction (text, or "EXTRACTION_FAILED" on its exception), or
\* convert_pdf_to_images and the vision extraction ("EXTRACTION_FAILED" when
\* no image or no page text comes back); an exception of the scratch
\* clearing of convert_pdf_to_images leaves the function and is caught by
\* main(), which goes on to the next document
Hybrid ==
    /\ dx = "detected"
    /\ path' = HybridPath(pdf_type)
    /\ IF path' = "direct"
       THEN /\ full_text' \in {"text", "EXTRACTION_FAILED"}
            /\ dx' = "extracted"
       ELSE \E image_paths_ \in {"pages", "empty", "raise"} :
              IF image_paths_ = "raise"
              THEN full_text' = "none" /\ dx' = "skipped"
              ELSE /\ dx' = "extracted"
                   /\ full_text' \in IF image_paths_ = "empty"
                                     THEN {"EXTRACTION_FAILED"}
                                     ELSE {"text", "EXTRACTION_FAILED"}
    /\ UNCHANGED <<doc_pages, plumber_view, pdf_type, tried, detectRaised, json_record>>

\* main(): "Combine results" and "Save JSON", or an exception of the write,
\* caught by main()
WriteRecord ==
    /\ dx = "extracted"
    /\ \/ /\ json_record' =
                [pdf_type |-> pdf_type,
                 extraction_method |-> IF pdf_type = "true_pdf" THEN "pdf_direct"
                                       ELSE "ai_vision",
                 full_document_text |-> full_text]
          /\ dx' = "written"
       \/ /\ dx' = "skipped"
          /\ UNCHANGED json_record
    /\ UNCHANGED <<doc_pages, plumber_view, pdf_type, tried, detectRaised, path, full_text>>

\* ------------------------------------------------------------------------
\* The batch loop of src/main_json_extractor.py: one JSON file per document
\* ------------------------------------------------------------------------
\* a name whose suffix is neither '.pdf' nor '.PDF'
NameMixed == <<"a", ".", "P", "d", "f">>

\* a name in which '.pdf' occurs before the suffix
NameDouble == <<"x", ".", "p", "d", "f", ".", "y", ".", "p", "d", "f">>

DotJson == <<".", "j", "s", "o", "n">>

\* str.replace(old, new): every non-overlapping occurrence, left to right
RECURSIVE replace(_, _, _)
replace(s, old, new) ==
    IF s = <<>> THEN <<>>
    ELSE IF MatchAt(s, old, 0)
         THEN new \o replace(SubSeq(s, Len(old) + 1, Len(s)), old, new)
         ELSE <<Head(s)>> \o replace(Tail(s), old, new)

\* json_filename = filename.replace('.pdf', '.json').replace('.PDF', '.json')
json_filename(fname) == replace(replace(fname, DotPdf, DotJson), <<".", "P", "D", "F">>, DotJson)

\* the source directories of the JSON variant: distinct entries in any order
JsonListings ==
    UNION {{l \in [1..n -> {NameB, NameA, NameMixed, NameDouble, NameTxt}] :
               \A i, j \in 1..n : i # j => l[i] # l[j]} : n \in 0..MaxListing}

\* final_data, as far as the file name and the timestamp go
final_data(fname) == [document_filename |-> fname, processed_timestamp |-> Timestamp]

VARIABLES
    jlisting,     \* what os.listdir returns for SOURCE_FOLDER
    jx,           \* position of main(): "fresh", "loop" or "done"
    jpdfs,        \* all_pdfs
    jidx,         \* loop index (0 before the first iteration)
    json_folder,  \* JSON_OUTPUT_FOLDER: file name -> the record dumped into it
    jwritten      \* history: <<filename, json_filename>> of every json.dump, in order

jsonVars == <<jlisting, jx, jpdfs, jidx, json_folder, jwritten>>

JsonInit ==
    /\ jlisting \in JsonListings
    /\ jx = "fresh"
    /\ jpdfs = <<>>
    /\ jidx = 0
    /\ json_folder = <<>>
    /\ jwritten = <<>>

\* the state of this part while another part is explored
JsonIdle ==
    /\ jlisting = <<>>
    /\ jx = "fresh"
    /\ jpdfs = <<>>
    /\ jidx = 0
    /\ json_folder = <<>>
    /\ jwritten = <<>>

\* all_pdfs = [...]; all_pdfs = all_pdfs[:4]; return when there is none
JsonStart ==
    /\ jx = "fresh"
    /\ jpdfs' = Slice(all_pdfs(jlisting), 0, 4)
    /\ jx' = IF jpdfs' = <<>> THEN "done" ELSE "loop"
    /\ UNCHANGED <<jlisting, jidx, json_folder, jwritten>>

\* an iteration that reaches json.dump(final_data, f)
JsonSave ==
    /\ jx = "loop"
    /\ jidx < Len(jpdfs)
    /\ jidx' = jidx + 1
    /\ LET fname == jpdfs[jidx + 1]
       IN  /\ json_folder' = Saved(json_folder, json_filename(fname), final_data(fname))
           /\ jwritten' = Append(jwritten, <<fname, json_filename(fname)>>)
    /\ UNCHANGED <<jlisting, jx, jpdfs>>

\* an iteration that ends with error_count += 1; continue
JsonError ==
    /\ jx = "loop"
    /\ jidx < Len(jpdfs)
    /\ jidx' = jidx + 1
    /\ UNCHANGED <<jlisting, jx, jpdfs, json_folder, jwritten>>

\* the loop is exhausted: the final summary
JsonFinish ==
    /\ jx = "loop"
    /\ jidx = Len(jpdfs)
    /\ jx' = "done"
    /\ UNCHANGED <<jlisting, jpdfs, jidx, json_folder, jwritten>>

\* ------------------------------------------------------------------------
\* Counters and progress lines of the loop of
\* src/main_facesheet_extraction.py main()
\* ------------------------------------------------------------------------
\* len(to_process)
MaxBatch == 8

\* "Progress update every 5 files"
ProgressEvery == 5

\* if successful_count % 5 == 0 and successful_count > 0, reached after
\* process_facesheet_pdf returned, whatever it returned
ProgressDue(success, count) == count % ProgressEvery = 0 /\ count > 0

VARIABLES
    fidx,          \* idx of the iteration that has just ended (0 before the first)
    fs_success,    \* successful_count
    fs_error,      \* error_count
    fs_last,       \* how that iteration went: "true", "false" or "raised"
    progress_at    \* history: <<idx, successful_count>> of every progress line

progressVars == <<fidx, fs_success, fs_error, fs_last, progress_at>>

ProgressInit ==
    /\ fidx = 0
    /\ fs_success = 0
    /\ fs_error = 0
    /\ fs_last = "none"
    /\ progress_at = <<>>

\* one iteration: process_facesheet_pdf returns True or False, or raises;
\* the counters, then (unless it raised) the progress condition
FsIteration ==
    /\ fidx < MaxBatch
    /\ fidx' = fidx + 1
    /\ \E r \in {"true", "false", "raised"} :
         /\ fs_last' = r
         /\ fs_success' = IF r = "true" THEN fs_success + 1 ELSE fs_success
         /\ fs_error' = IF r = "true" THEN fs_error ELSE fs_error + 1
         /\ progress_at' = IF r # "raised" /\ ProgressDue(r = "true", fs_success')
                           THEN Append(progress_at, <<fidx', fs_success'>>)
                           ELSE progress_at

\* ------------------------------------------------------------------------
\* Specifications
\* ------------------------------------------------------------------------
vars == <<runnerVars, parseVars, storeVars, recordVars, listingVars, rasterVars, classifyVars, jsonVars, progressVars>>

\* the batch runners (src/main.py and src/main_facesheet_extraction.py),
\* with kills and restarts
Init == RunnerInit /\ ParseIdle /\ StoreIdle /\ RecordIdle /\ ListingIdle /\ RasterIdle /\ ClassifyIdle /\ JsonIdle /\ ProgressInit

Next ==
    \/ Start /\ UNCHANGED <<parseVars, storeVars, recordVars, listingVars, rasterVars, classifyVars, jsonVars, progressVars>>
    \/ NextDoc /\ UNCHANGED <<parseVars, storeVars, recordVars, listingVars, rasterVars, classifyVars, jsonVars, progressVars>>
    \/ Finish /\ UNCHANGED <<parseVars, storeVars, recordVars, listingVars, rasterVars, classifyVars, jsonVars, progressVars>>
    \/ Kill /\ UNCHANGED <<parseVars, storeVars, recordVars, listingVars, rasterVars, classifyVars, jsonVars, progressVars>>
    \/ Convert /\ UNCHANGED <<parseVars, storeVars, recordVars, listingVars, rasterVars, classifyVars, jsonVars, progressVars>>
    \/ ExtractHeader /\ UNCHANGED <<parseVars, storeVars, recordVars, listingVars, rasterVars, classifyVars, jsonVars, progressVars>>
    \/ ExtractSignature /\ UNCHANGED <<parseVars, storeVars, recordVars, listingVars, rasterVars, classifyVars, jsonVars, progressVars>>
    \/ AppendRow /\ UNCHANGED <<parseVars, storeVars, recordVars, listingVars, rasterVars, classifyVars, jsonVars, progressVars>>
    \/ MarkProcessed /\ UNCHANGED <<parseVars, storeVars, recordVars, listingVars, rasterVars, classifyVars, jsonVars, progressVars>>
    \/ SaveCheckpoint /\ UNCHANGED <<parseVars, storeVars, recordVars, listingVars, rasterVars, classifyVars, jsonVars, progressVars>>
    \/ Except /\ UNCHANGED <<parseVars, storeVars, recordVars, listingVars, rasterVars, classifyVars, jsonVars, progressVars>>
    \/ ExceptSave /\ UNCHANGED <<parseVars, storeVars, recordVars, listingVars, rasterVars, classifyVars, jsonVars, progressVars>>
    \/ FsProcess /\ UNCHANGED <<parseVars, storeVars, recordVars, listingVars, rasterVars, classifyVars, jsonVars, progressVars>>

Spec == Init /\ [][Next]_vars

\* ollama_process_image on every modelled response
InitParse == ParseInit /\ RunnerIdle /\ StoreIdle /\ RecordIdle /\ ListingIdle /\ RasterIdle /\ ClassifyIdle /\ JsonIdle /\ ProgressInit

NextParse ==
    \/ FirstCallRaises /\ UNCHANGED <<runnerVars, storeVars, recordVars, listingVars, rasterVars, classifyVars, jsonVars, progressVars>>
    \/ StructuredCallRaises /\ UNCHANGED <<runnerVars, storeVars, recordVars, listingVars, rasterVars, classifyVars, jsonVars, progressVars>>
    \/ ParseResponse /\ UNCHANGED <<runnerVars, storeVars, recordVars, listingVars, rasterVars, classifyVars, jsonVars, progressVars>>

SpecParse == InitParse /\ [][NextParse]_vars

\* two checkpoint stores
InitStore == StoreInit /\ RunnerIdle /\ ParseIdle /\ RecordIdle /\ ListingIdle /\ RasterIdle /\ ClassifyIdle /\ JsonIdle /\ ProgressInit

NextStore ==
    \/ AddA /\ UNCHANGED <<runnerVars, parseVars, recordVars, listingVars, rasterVars, classifyVars, jsonVars, progressVars>>
    \/ AddB /\ UNCHANGED <<runnerVars, parseVars, recordVars, listingVars, rasterVars, classifyVars, jsonVars, progressVars>>
    \/ SaveA /\ UNCHANGED <<runnerVars, parseVars, recordVars, listingVars, rasterVars, classifyVars, jsonVars, progressVars>>
    \/ SaveB /\ UNCHANGED <<runnerVars, parseVars, recordVars, listingVars, rasterVars, classifyVars, jsonVars, progressVars>>

SpecStore == InitStore /\ [][NextStore]_vars

\* validate_extracted_data and the CSV of src/main.py on every modelled
\* parsed object
InitRecord == RecordInit /\ RunnerIdle /\ ParseIdle /\ StoreIdle /\ ListingIdle /\ RasterIdle /\ ClassifyIdle /\ JsonIdle /\ ProgressInit

NextRecord ==
    \/ RecPrepare /\ UNCHANGED <<runnerVars, parseVars, storeVars, listingVars, rasterVars, classifyVars, jsonVars, progressVars>>
    \/ RecValidate /\ UNCHANGED <<runnerVars, parseVars, storeVars, listingVars, rasterVars, classifyVars, jsonVars, progressVars>>
    \/ RecCombine /\ UNCHANGED <<runnerVars, parseVars, storeVars, listingVars, rasterVars, classifyVars, jsonVars, progressVars>>
    \/ RecAppend /\ UNCHANGED <<runnerVars, parseVars, storeVars, listingVars, rasterVars, classifyVars, jsonVars, progressVars>>
    \/ RecEnd /\ UNCHANGED <<runnerVars, parseVars, storeVars, listingVars, rasterVars, classifyVars, jsonVars, progressVars>>

SpecRecord == InitRecord /\ [][NextRecord]_vars

\* the directory listing on every modelled directory
InitListing == ListingInit /\ RunnerIdle /\ ParseIdle /\ StoreIdle /\ RecordIdle /\ RasterIdle /\ ClassifyIdle /\ JsonIdle /\ ProgressInit

NextListing ==
    \/ ListMain /\ UNCHANGED <<runnerVars, parseVars, storeVars, recordVars, rasterVars, classifyVars, jsonVars, progressVars>>
    \/ ListFacesheet /\ UNCHANGED <<runnerVars, parseVars, storeVars, recordVars, rasterVars, classifyVars, jsonVars, progressVars>>
    \/ ListCopy /\ UNCHANGED <<runnerVars, parseVars, storeVars, recordVars, rasterVars, classifyVars, jsonVars, progressVars>>

SpecListing == InitListing /\ [][NextListing]_vars

\* convert_pdf_to_images over a sequence of documents
InitRaster ==
    /\ RasterInit
    /\ RunnerIdle /\ ParseIdle /\ StoreIdle /\ RecordIdle /\ ListingIdle /\ ClassifyIdle /\ JsonIdle /\ ProgressInit

NextRaster ==
    \/ RasterBegin /\ UNCHANGED <<runnerVars, parseVars, storeVars, recordVars, listingVars, classifyVars, jsonVars, progressVars>>
    \/ ClearScratch /\ UNCHANGED <<runnerVars, parseVars, storeVars, recordVars, listingVars, classifyVars, jsonVars, progressVars>>
    \/ PdfInfo /\ UNCHANGED <<runnerVars, parseVars, storeVars, recordVars, listingVars, classifyVars, jsonVars, progressVars>>
    \/ SaveFirst /\ UNCHANGED <<runnerVars, parseVars, storeVars, recordVars, listingVars, classifyVars, jsonVars, progressVars>>
    \/ SaveLast /\ UNCHANGED <<runnerVars, parseVars, storeVars, recordVars, listingVars, classifyVars, jsonVars, progressVars>>
    \/ SaveAll /\ UNCHANGED <<runnerVars, parseVars, storeVars, recordVars, listingVars, classifyVars, jsonVars, progressVars>>
    \/ Crop /\ UNCHANGED <<runnerVars, parseVars, storeVars, recordVars, listingVars, classifyVars, jsonVars, progressVars>>
    \/ ReadSignature /\ UNCHANGED <<runnerVars, parseVars, storeVars, recordVars, listingVars, classifyVars, jsonVars, progressVars>>
    \/ ReadFullText /\ UNCHANGED <<runnerVars, parseVars, storeVars, recordVars, listingVars, classifyVars, jsonVars, progressVars>>

SpecRaster == InitRaster /\ [][NextRaster]_vars

\* detect_pdf_type and the hybrid extraction on every modelled document
InitClassify ==
    /\ ClassifyInit
    /\ RunnerIdle /\ ParseIdle /\ StoreIdle /\ RecordIdle /\ ListingIdle /\ RasterIdle /\ JsonIdle /\ ProgressInit

NextClassify ==
    \/ DetectPrimary /\ UNCHANGED <<runnerVars, parseVars, storeVars, recordVars, listingVars, rasterVars, jsonVars, progressVars>>
    \/ DetectSecondary /\ UNCHANGED <<runnerVars, parseVars, storeVars, recordVars, listingVars, rasterVars, jsonVars, progressVars>>
    \/ Hybrid /\ UNCHANGED <<runnerVars, parseVars, storeVars, recordVars, listingVars, rasterVars, jsonVars, progressVars>>
    \/ WriteRecord /\ UNCHANGED <<runnerVars, parseVars, storeVars, recordVars, listingVars, rasterVars, jsonVars, progressVars>>

SpecClassify == InitClassify /\ [][NextClassify]_vars

\* the batch loop of src/main_json_extractor.py on every modelled directory
InitJson ==
    /\ JsonInit
    /\ RunnerIdle /\ ParseIdle /\ StoreIdle /\ RecordIdle /\ ListingIdle /\ RasterIdle /\ ClassifyIdle /\ ProgressInit

NextJson ==
    \/ JsonStart /\ UNCHANGED <<runnerVars, parseVars, storeVars, recordVars, listingVars, rasterVars, classifyVars, progressVars>>
    \/ JsonSave /\ UNCHANGED <<runnerVars, parseVars, storeVars, recordVars, listingVars, rasterVars, classifyVars, progressVars>>
    \/ JsonError /\ UNCHANGED <<runnerVars, parseVars, storeVars, recordVars, listingVars, rasterVars, classifyVars, progressVars>>
    \/ JsonFinish /\ UNCHANGED <<runnerVars, parseVars, storeVars, recordVars, listingVars, rasterVars, classifyVars, progressVars>>

SpecJson == InitJson /\ [][NextJson]_vars

\* the facesheet loop over every sequence of outcomes
InitProgress ==
    /\ ProgressInit
    /\ RunnerIdle /\ ParseIdle /\ StoreIdle /\ RecordIdle /\ ListingIdle /\ RasterIdle /\ ClassifyIdle /\ JsonIdle

NextProgress == FsIteration /\ UNCHANGED <<runnerVars, parseVars, storeVars, recordVars, listingVars, rasterVars, classifyVars, jsonVars>>

SpecProgress == InitProgress /\ [][NextProgress]_vars

\* ------------------------------------------------------------------------
\* Properties
\* ------------------------------------------------------------------------
NoDuplicates(seq) == \A i, j \in 1..Len(seq) : i # j => seq[i] # seq[j]

SecondRunProcessesNothing ==
    (script = "main" /\ prevEnd = "complete") =>
        (to_process = <<>> /\ handed = <<>>)

NoDuplicateRows == script = "main" => NoDuplicates(csvRows)

\* C5 (the claim as stated): when convert_pdf_to_images returned an empty
\* result the document is counted as an error and, before the next document
\* starts, its filename is in the set processed and in the checkpoint file
ConversionFailureCheckpointed ==
    (script = "main" /\ pc = "loop" /\ outcome = "convert_empty") =>
        /\ error_count >= 1
        /\ filename \in processed
        /\ filename \in Persisted

FailureOutcomes == {"convert_empty", "convert_raised", "failed_header", "failed_append"}

\* C6 (the claim as stated): in src/main.py a failure at any stage leaves the
\* document counted as an error and persisted in the checkpoint when its
\* iteration ends, and a run that reaches the final summary has attempted
\* every document of to_process
FailureIsolated ==
    script = "main" =>
        /\ (pc = "loop" /\ outcome \in FailureOutcomes) =>
               (error_count >= 1 /\ filename \in Persisted)
        /\ (pc = "done" /\ lastEnd = "complete") => handed = to_process

\* the documents whose iteration has ended in the current process
Handled ==
    {to_process[i] : i \in 1..(IF pc \in {"loop", "done"} THEN idx ELSE idx - 1)}

Ascending(seq) == \A i \in 1..(Len(seq) - 1) : StrLess(seq[i], seq[i + 1])

\* C8: a saved checkpoint file holds exactly the saved set, ascending and
\* without what the file held before, so two stores saved with the same
\* elements hold identical file contents
CheckpointDeterministic ==
    /\ savedA # Unsaved => (Range(fileA) = savedA /\ Ascending(fileA))
    /\ savedB # Unsaved => (Range(fileB) = savedB /\ Ascending(fileB))
    /\ (savedA # Unsaved /\ savedA = savedB) => fileA = fileB

\* C8 witness: both stores were saved with the same three names, over files
\* that held different earlier contents or none
SameSetSavedTwice ==
    /\ savedA = savedB
    /\ savedA = setA
    /\ Cardinality(savedA) = 3
    /\ fileA = <<NameA, NameB, NameC>>
    /\ fileB = fileA

\* a '{' and a later '}' both appear
BracePair(t) == find(t, LBrace, 0) # -1 /\ rfind(t, RBrace) > find(t, LBrace, 0)

\* the substring from the first '{' through the last '}'
OuterBraces(t) == Slice(t, find(t, LBrace, 0), rfind(t, RBrace) + 1)

\* C9 (the claim as stated, candidates compared after the strip the code
\* applies to a fenced block): with a fenced JSON block the candidate is the
\* text between the opening and the following closing fence marker; with an
\* opening fence that is never closed it is the text after the opening
\* marker, or what rules (2) and (3) give; without a fence, a '{' with a
\* later '}' gives the substring from the first '{' through the last '}';
\* anything else fails with the "No JSON found" condition
SelectionFollowsRules ==
    (px = "returned" /\ failure # "call_error") =>
        LET t      == response_text
            fenced == contains(t, Fence)
            open   == find(t, Fence, 0) + 7
            close  == find(t, Ticks, open)
        IN  /\ (fenced /\ close # -1) =>
                   (branch = "fence" /\ json_text = strip(Slice(t, open, close)))
            /\ (fenced /\ close = -1) =>
                   \/ json_text = strip(Slice(t, open, Len(t)))
                   \/ BracePair(t) /\ json_text = OuterBraces(t)
                   \/ ~BracePair(t) /\ failure = "no_json"
            /\ (~fenced /\ BracePair(t)) =>
                   (branch = "braces" /\ json_text = OuterBraces(t))
            /\ (~fenced /\ ~BracePair(t)) => failure = "no_json"

\* C10 (the claim as stated): when src/main_json_extractor.py finds no JSON
\* or malformed JSON in the structured response, ollama_process_image returns
\* a record in which every field of the schema of the structured prompt is
\* present with the marker EXTRACTION_FAILED
SentinelCoversPromptSchema ==
    (variant = "json_extractor" /\ px # "ready" /\ failure \in {"no_json", "decode_error"}) =>
        /\ px = "returned"
        /\ \A f \in PromptSchema(variant) :
               f \in DOMAIN result /\ result[f] = "EXTRACTION_FAILED"

\* C11 (the claim as stated): validate_extracted_data returns a mapping for
\* every parsed object, whatever document_status, authenticated_by,
\* facility_name, location and performed_by hold or lack
ValidateNeverRaises == rx \in {"returned", "combined", "appended"} => ~vraised

\* C12 (the claim as stated): in the mapping validate_extracted_data returns
\* no str has leading or trailing whitespace, and a str that is, but for its
\* case, one of the placeholders is the sentinel "N/A"
PlaceholdersCollapsed ==
    (rx = "returned" /\ ~vraised) =>
        \A key \in DOMAIN header_record :
            IsStr(header_record[key]) =>
                /\ strip(header_record[key].v) = header_record[key].v
                /\ lower(header_record[key].v) \in Placeholders =>
                       header_record[key].v = NA

\* C13: when validate_extracted_data returns, the location is absent if it
\* was absent; otherwise, with loc the cleaned location, it is "LD: " + loc
\* when loc is not the sentinel, does not start with "LD:" and contains "TR"
\* or "tr", and loc itself in every other case; the location check applied
\* to the returned mapping leaves it unchanged, so the prefix is not added
\* twice
LocationPrefixRepaired ==
    (rx = "returned" /\ ~vraised) =>
        /\ ("location" \in DOMAIN header_record) = ("location" \in DOMAIN extracted_data)
        /\ "location" \in DOMAIN extracted_data =>
              LET loc == CleanValue(extracted_data["location"]).v
                  out == header_record["location"].v
              IN  /\ IsStr(header_record["location"])
                  /\ IF /\ loc # NA
                        /\ SubSeq(loc, 1, 3) # <<"L", "D", ":">>
                        /\ \E i \in 1..(Len(loc) - 1) :
                               <<loc[i], loc[i + 1]>> \in {<<"T", "R">>, <<"t", "r">>}
                     THEN out = <<"L", "D", ":", " ">> \o loc
                     ELSE out = loc
        /\ FormatLocation(header_record) = Returned(header_record)

\* C13 witness: the location "TR4" came back as "LD: TR4"
LocationTR4Prefixed ==
    /\ rx = "returned"
    /\ ~vraised
    /\ "location" \in DOMAIN extracted_data
    /\ extracted_data["location"] = Str(<<"T", "R", "4">>)
    /\ header_record["location"] = Str(<<"L", "D", ":", " ", "T", "R", "4">>)

\* C14 (the claim as stated): the CSV has one header line, the expected
\* columns, written only when the file was absent; every row has a cell for
\* each expected column; and in the row just appended the cell of every
\* expected field that the record lacks or holds as null is "N/A"
CsvSchemaFixed ==
    csvLines # NoFile =>
        /\ headerWrites <= 1
        /\ csvLines[1] = expected_columns
        /\ \A i \in 2..Len(csvLines) : Len(csvLines[i]) = Len(expected_columns)
        /\ rx = "appended" =>
              \A c \in 1..Len(expected_columns) :
                  get(header_record, expected_columns[c], Null) = Null =>
                      csvLines[Len(csvLines)][c] = NA

\* C15 (the claim as stated): the documents a batch runner considers are
\* exactly the entries of the source directory that have the .pdf suffix in
\* any case, are not hidden and are regular files, and to_process holds no
\* hidden entry and no entry that is not a regular file
OnlyRegularVisiblePdfs ==
    (lx = "listed" /\ lister \in {"main", "facesheet"}) =>
        /\ Range(considered) =
               {f \in Range(dirListing) :
                   /\ Len(f) >= 4
                   /\ lower(SubSeq(f, Len(f) - 3, Len(f))) = DotPdf
                   /\ f[1] # "."
                   /\ isfile(f)}
        /\ \A i \in 1..Len(selected) : selected[i][1] # "." /\ isfile(selected[i])

\* C16: from the end of the clearing loop of convert_pdf_to_images until the
\* call for the next document, every .png / .jpg / .jpeg file (in any case)
\* of the scratch directory was written from the document being converted,
\* whatever the directory held before and however the conversions of the
\* earlier documents ended, and every path the call returns names such a file
ScratchHoldsCurrentOnly ==
    cx \in {"info", "first", "last", "all", "returned"} =>
        /\ \A f \in DOMAIN scratch :
               (\E ext \in {<<".", "p", "n", "g">>, <<".", "j", "p", "g">>,
                             <<".", "j", "p", "e", "g">>} :
                    /\ Len(f) >= Len(ext)
                    /\ lower(SubSeq(f, Len(f) - Len(ext) + 1, Len(f))) = ext)
               => scratch[f].doc = rdoc
        /\ \A k \in DOMAIN rpaths :
               rpaths[k] \in DOMAIN scratch /\ scratch[rpaths[k]].doc = rdoc

\* C16 witness: the conversion of the first document failed after its first
\* page was written; the clearing for the second document removed that file
\* and the second document was converted
StaleImagesCleared ==
    /\ mode = "first_last"
    /\ rdoc = 2
    /\ cx = "returned"
    /\ prevResult = "empty"
    /\ 1 \in removed
    /\ rpaths # <<>>
    /\ NotesTxt \in DOMAIN scratch

\* C17: when convert_pdf_to_images of src/main.py returns image paths, first
\* names the image of page 1 and last the image of the final page of the
\* document; for a one-page document last is the very file first names, and
\* once page 1 is written the call does not fail
SinglePageLastIsFirst ==
    (mode = "first_last" /\ cx = "returned") =>
        /\ rpaths # <<>> =>
              /\ DOMAIN rpaths = {"first", "last"}
              /\ scratch[rpaths["first"]] = PageOf(rdoc, 1)
              /\ scratch[rpaths["last"]] = PageOf(rdoc, total_pages)
        /\ total_pages = 1 =>
              /\ rpaths # <<>> => rpaths["last"] = rpaths["first"]
              /\ (PageName(1) \in DOMAIN scratch /\ scratch[PageName(1)].doc = rdoc)
                    => rpaths # <<>>

\* C17 witness: a one-page document was converted and last is first
SinglePageConverted ==
    /\ mode = "first_last"
    /\ cx = "returned"
    /\ total_pages = 1
    /\ rpaths # <<>>
    /\ rpaths["last"] = PageName(1)
    /\ rpaths["first"] = PageName(1)
    /\ scratch[PageName(1)] = PageOf(rdoc, 1)

\* the cleaned text of the primary extraction over the sampled pages
PrimaryClean == CleanText(TotalText(doc_pages, Min(3, Len(doc_pages))))

\* the cleaned text of the secondary extraction over the sampled pages
SecondaryClean ==
    CleanText(TotalTextPlumber(plumber_view, doc_pages, Min(3, Len(doc_pages))))

\* the number of characters of a text that are not whitespace
NonWhitespaceCount(text) == TextLength(SelectSeq(text, LAMBDA r : r[1] \notin {" ", "\n", "\r"}))

\* the decision rule as the claim words it: more than 100 cleaned characters,
\* more than 10 words, and alphabetic characters more than half of the
\* characters that are not whitespace
RuleAsClaimed(text) ==
    /\ TextLength(text) > 100
    /\ WordCount(text) > 10
    /\ 2 * AlphaCount(text) > NonWhitespaceCount(text)

\* C18 (the claim as stated): when no extraction raises, detect_pdf_type
\* returns true_pdf exactly when the text of the primary or else of the
\* secondary extraction over at most the first 3 pages passes the rule, and
\* returns scanned_pdf only after both methods were tried and both fail it
ClassifierFollowsRule ==
    (dx \notin {"start", "secondary"} /\ ~detectRaised) =>
        /\ (pdf_type = "true_pdf") = (RuleAsClaimed(PrimaryClean) \/ RuleAsClaimed(SecondaryClean))
        /\ pdf_type = "scanned_pdf" =>
              /\ tried = {"PyPDF2", "pdfplumber"}
              /\ ~RuleAsClaimed(PrimaryClean)
              /\ ~RuleAsClaimed(SecondaryClean)

\* C19 (the claim as stated): when no extraction raises, a document whose
\* embedded text in the sampled pages has at least 200 alphabetic characters
\* is classified true_pdf, and a document for which both extractions give
\* empty text is classified scanned_pdf
ClassifierCorrect ==
    (dx \notin {"start", "secondary"} /\ ~detectRaised) =>
        /\ AlphaCount(PrimaryClean) >= 200 => pdf_type = "true_pdf"
        /\ (PrimaryClean = <<>> /\ SecondaryClean = <<>>) => pdf_type = "scanned_pdf"

\* C20: detect_pdf_type returns error exactly when one of its extractions
\* raised; for such a document extract_full_document_text_hybrid takes the
\* vision branch and returns what that branch returns for a scanned document,
\* never the direct extraction; and the record main() writes for it names
\* the type error and the method ai_vision
ClassificationFailureNonFatal ==
    /\ dx \notin {"start", "secondary"} => (detectRaised = (pdf_type = "error"))
    /\ (pdf_type = "error" /\ path # "none") => path = "vision"
    /\ (pdf_type = "error" /\ dx \in {"extracted", "written"}) =>
          full_text \in {"text", "EXTRACTION_FAILED"}
    /\ (pdf_type = "error" /\ dx = "written") =>
          json_record = [pdf_type |-> "error", extraction_method |-> "ai_vision",
                         full_document_text |-> full_text]

\* C20 witness: the secondary extraction raised, the document went down the
\* vision branch, its text was extracted and its record was written
ErrorDocumentProcessed ==
    /\ detectRaised
    /\ tried = {"PyPDF2", "pdfplumber"}
    /\ pdf_type = "error"
    /\ path = "vision"
    /\ dx = "written"
    /\ json_record.extraction_method = "ai_vision"
    /\ json_record.full_document_text = "text"

\* C21 (the claim as stated): when a model call of ollama_process_image of
\* src/main.py fails, the raw-description call or the structured call, the
\* function does not raise: it returns the all-EXTRACTION_FAILED record
ModelCallFailureIsSentinel ==
    (variant = "main" /\ (px = "raised" \/ failure = "call_error")) =>
        (px = "returned" /\ result = ErrorData)

\* C22 (the claim as stated): every document the JSON variant saves has a
\* name with the suffix .pdf in some case, and its record is in the one file
\* named like the source file with the four-character extension replaced by
\* .json; the record holds the originating filename and a timestamp
JsonNamedAfterSource ==
    \A i \in 1..Len(jwritten) :
        LET fname == jwritten[i][1]
            out   == jwritten[i][2]
        IN  /\ endswith(lower(fname), DotPdf)
            /\ out = SubSeq(fname, 1, Len(fname) - 4) \o DotJson
            /\ out \in DOMAIN json_folder
            /\ json_folder[out].document_filename = fname
            /\ "processed_timestamp" \in DOMAIN json_folder[out]

\* C23: when the page-count lookup, the conversion of the first page or the
\* conversion of the last page raises inside convert_pdf_to_images of
\* src/main.py, also after page_1.png was written, the call returns (it
\* does not raise) and what it returns is empty
RasterErrorReturnsEmpty ==
    (mode = "first_last" /\ failed_at \in {"info", "first", "last"}) =>
        /\ cx # "raised"
        /\ rpaths = <<>>

\* C23 witness: the conversion of the last page of a document of several
\* pages raised after page_1.png had been written, and the call returned
LastPageFailedAfterFirst ==
    /\ mode = "first_last"
    /\ cx = "returned"
    /\ failed_at = "last"
    /\ total_pages > 1
    /\ PageName(1) \in DOMAIN scratch
    /\ scratch[PageName(1)] = PageOf(rdoc, 1)
    /\ rpaths = <<>>

\* C25 (the claim as stated): the image extract_electronic_signature_date
\* of src/main.py reads is the whole final page of the document, for every
\* page count
SignatureReadsWholeLastPage ==
    (mode = "first_last" /\ cx = "signed") => sig_input = PageOf(rdoc, total_pages)

\* C26 (the claim as stated): extract_full_document_text of
\* src/main_json_extractor.py reads the whole of every page, page 1 included
FullTextReadsWholePages ==
    (mode = "all" /\ cx = "texted") =>
        \A i \in 1..Len(text_input) : text_input[i] = PageOf(rdoc, i)

\* C24 (the claim as stated): in the facesheet loop a progress line is
\* emitted exactly when an iteration's success brings successful_count to a
\* positive multiple of 5: once for each multiple reached, and never in an
\* iteration that failed
ProgressOncePerMultiple ==
    /\ \A i \in 1..Len(progress_at) :
           /\ progress_at[i][2] = ProgressEvery * i
           /\ \A j \in 1..Len(progress_at) : j # i => progress_at[j][2] # progress_at[i][2]
    /\ Len(progress_at) = fs_success \div ProgressEvery
    /\ (progress_at # <<>> /\ progress_at[Len(progress_at)][1] = fidx) => fs_last = "true"

\* C27: in src/main.py, at every state, kills included, every filename of
\* the persisted checkpoint file that went through the success path has its
\* row in the CSV, and so has the document in flight from the moment it is
\* added to processed until its checkpoint is written
RowBeforeCheckpoint ==
    script = "main" =>
        /\ \A f \in load_checkpoint(ckptFile) \cap succeeded : f \in Range(csvRows)
        /\ pc \in {"add", "save"} => filename \in Range(csvRows)

\* C27 witness: the process was killed after the row of A.PDF was appended
\* and before its checkpoint was written; b.pdf, which succeeded before, is
\* in the checkpoint file and has its row
KilledBetweenRowAndCheckpoint ==
    /\ script = "main"
    /\ pc = "idle"
    /\ lastEnd = "killed"
    /\ NameB \in load_checkpoint(ckptFile) \cap succeeded
    /\ NameB \in Range(csvRows)
    /\ NameA \in Range(csvRows)
    /\ NameA \notin load_checkpoint(ckptFile)

\* C28 (the claim as stated): in both batch loops every iteration adds one
\* to exactly one of successful_count and error_count: between iterations
\* their sum is the
\* number of documents handled, inside an iteration it is that number or one
\* less, at the final summary it is len(to_process); in src/main.py the rows
\* appended by this process are as many as successful_count
CountersAccount ==
    /\ successful_count + error_count \in {idx - 1, idx}
    /\ pc \in {"idle", "loop", "done"} => successful_count + error_count = idx
    /\ (pc = "done" /\ lastEnd = "complete") =>
          successful_count + error_count = Len(to_process)
    /\ (script = "main" /\ pc \in {"loop", "done"}) =>
          Len(csvRows) - csvAtStart = successful_count

\* C29 (the claim as stated): validate_extracted_data is idempotent: on
\* every parsed object on which it returns, it returns on its own output
\* and gives that output back unchanged
ValidateIdempotent ==
    (rx = "returned" /\ ~vraised) =>
        validate_extracted_data(header_record) = Returned(header_record)

\* the names a checkpoint file holds (none when there is no file)
Held(file) == IF file = NoFile THEN {} ELSE Range(file)

====
